---- MODULE Spec2Model ----
(***************************************************************************)
(* Route drawing with trail snapping (planning.js, the unified             *)
(* click-based drawing tool) and the trip store it feeds (trip-panel.js).  *)
(*                                                                         *)
(* Coordinates are pairs <<lng, lat>> on an integer grid; one grid unit is *)
(* one metre on the ground, so turf.distance / turf.length in metres are   *)
(* Euclidean lengths of grid vectors (compared squared, or measured along  *)
(* axis-aligned polylines).  map.project is an affine map with 2 pixels    *)
(* per unit and the screen y axis pointing down.  Array indices keep the   *)
(* 0-based values of the JavaScript source; a TLA+ sequence s holds the    *)
(* JavaScript element s[i] at position i + 1.                              *)
(***************************************************************************)
EXTENDS Integers, Sequences, FiniteSets, TLC

VARIABLES
    pendingFeatureType,     \* "route" when drawing, "null" otherwise
    isDrawingRoute,
    routeCoords,
    routeSnapped,
    routeVertexTypes,
    routeTrailRefs,
    routeSegments,
    routeDayhikeSegments,
    currentPointType,
    mouseMoveHandler,       \* _routeMouseMoveHandler registered on the map
    keyHandler,             \* _routeKeyHandler registered on the document
    snapPreview,            \* data of the "snap-preview" source
    drawingSource,          \* lines of the "route-drawing" source
    features,               \* TripManager.currentTrip.features
    lastCall,               \* the session's last click: its getTrailSegmentBetween call
    clicks,                 \* number of click events handled so far
    probe,                  \* one application of a function: its arguments and result
    draw                    \* the terra-draw instance of planning.js and its mode

vars == <<pendingFeatureType, isDrawingRoute, routeCoords, routeSnapped,
          routeVertexTypes, routeTrailRefs, routeSegments, routeDayhikeSegments,
          currentPointType, mouseMoveHandler, keyHandler, snapPreview,
          drawingSource, features, lastCall, clicks, probe, draw>>

----------------------------------------------------------------------------
(* Bounds of the model *)

MaxClicks == 3          \* click events per behaviour of Spec
MaxGeoClicks == 2       \* click events per behaviour of SpecGeo
MaxFaultClicks == 2     \* click events per behaviour of SpecFault
MaxBypassClicks == 2    \* click events per behaviour of SpecBypass
MaxSnapRuns == 2        \* applications of snapToTrail per behaviour of SpecRuns
MaxRunClicks == 1       \* click events per behaviour of SpecRuns
MaxFinishClicks == 3    \* click events per behaviour of SpecFinish
MaxSliceLen == 5        \* vertices of the longest polyline extractTrailSlice is applied to
MaxSnapLat == 16        \* largest latitude of the grid snapToTrail is applied to
MaxMergeLen == 3        \* vertices of the longest fragment mergeTrailFragments is applied to

----------------------------------------------------------------------------
(* Program constants *)

SNAP_PIXEL_RADIUS == 30
MERGE_GAP_TOLERANCE_METERS == 20
POINT_TYPES == <<"route", "camp", "dayhike", "rest">>

----------------------------------------------------------------------------
(* Arithmetic and sequence helpers *)

Abs(n) == IF n < 0 THEN -n ELSE n
Min(a, b) == IF a < b THEN a ELSE b
Max(a, b) == IF a > b THEN a ELSE b
Clamp(v, lo, hi) == IF v < lo THEN lo ELSE IF v > hi THEN hi ELSE v

Last(s) == s[Len(s)]
Rest(s) == SubSeq(s, 2, Len(s))                      \* Array.prototype.slice(1)
Reverse(s) == [i \in 1..Len(s) |-> s[Len(s) + 1 - i]] \* Array.prototype.reverse

RECURSIVE SumSeq(_)
SumSeq(s) == IF s = <<>> THEN 0 ELSE Head(s) + SumSeq(Tail(s))

----------------------------------------------------------------------------
(* Collaborators: the map and turf *)

\* map.project: 2 pixels per grid unit, screen y grows downwards
project(c) == [x |-> 2000 + 2 * c[1], y |-> 2000 - 2 * c[2]]

\* squared pixel distance between two projected points
PixelDist2(p, q) == (p.x - q.x) * (p.x - q.x) + (p.y - q.y) * (p.y - q.y)

\* turf.distance(a, b, {units: "meters"}), squared
DistMeters2(a, b) == (a[1] - b[1]) * (a[1] - b[1]) + (a[2] - b[2]) * (a[2] - b[2])

\* the point of segment [a, b] nearest to p (trail segments are axis-aligned)
NearestOnSegment(a, b, p) ==
    IF a[2] = b[2] THEN <<Clamp(p[1], Min(a[1], b[1]), Max(a[1], b[1])), a[2]>>
    ELSE IF a[1] = b[1] THEN <<a[1], Clamp(p[2], Min(a[2], b[2]), Max(a[2], b[2]))>>
    ELSE IF DistMeters2(a, p) <= DistMeters2(b, p) THEN a ELSE b

\* turf.nearestPointOnLine(line, pt): the nearest point of the first segment
\* at minimal distance; properties.index is the segment index, or the index
\* of the segment's end vertex when the nearest point is that vertex.
nearestPointOnLine(line, pt) ==
    LET segs == 0..(Len(line) - 2)
        foot(i) == NearestOnSegment(line[i + 1], line[i + 2], pt)
        d(i) == DistMeters2(foot(i), pt)
    IN CHOOSE nearest \in
           {[coordinates |-> foot(best),
             index |-> IF foot(best) = line[best + 2] /\ line[best + 2] # line[best + 1]
                       THEN best + 1 ELSE best,
             dist2 |-> d(best)] :
            best \in {i \in segs : /\ \A j \in segs : d(i) <= d(j)
                                   /\ \A j \in segs : j < i => d(j) > d(i)}} : TRUE

\* turf.lineSlice(startPt, stopPt, line): the part of the line between the
\* two nearest points, always in the direction of the line
SliceBetween(startVertex, stopVertex, line) ==
    LET ends == IF startVertex.index <= stopVertex.index
                THEN <<startVertex, stopVertex>> ELSE <<stopVertex, startVertex>>
        mid == [k \in 1..(ends[2].index - ends[1].index) |-> line[ends[1].index + k + 1]]
    IN <<ends[1].coordinates>> \o mid \o <<ends[2].coordinates>>

lineSlice(startPt, stopPt, line) ==
    CHOOSE sliced \in {SliceBetween(startVertex, stopVertex, line) :
                          startVertex \in {nearestPointOnLine(line, startPt)},
                          stopVertex \in {nearestPointOnLine(line, stopPt)}} : TRUE

----------------------------------------------------------------------------
(* The trails layer of the map: the features queryRenderedFeatures can     *)
(* return, in query order.  key stands for the identity of the feature     *)
(* object within one query result; id NullId stands for a feature with     *)
(* neither id nor osm_id, name "" for a feature without name.              *)

NullId == -1

Ridge == [k \in 1..11 |-> <<10 * (k - 1), 0>>]

World == <<
    [key |-> 1, type |-> "LineString", id |-> 11, name |-> "Ridge",
     coordinates |-> Ridge],
    [key |-> 2, type |-> "LineString", id |-> 11, name |-> "Ridge",
     coordinates |-> <<<<120, 0>>, <<140, 0>>, <<160, 0>>>>],
    [key |-> 3, type |-> "LineString", id |-> NullId, name |-> "Ridge",
     coordinates |-> <<<<200, 0>>, <<220, 0>>, <<240, 0>>>>],
    [key |-> 4, type |-> "LineString", id |-> 14, name |-> "Creek",
     coordinates |-> <<<<50, 10>>, <<50, 50>>, <<50, 90>>>>],
    [key |-> 5, type |-> "MultiLineString", id |-> 15, name |-> "Braid",
     coordinates |-> <<<<300, 290>>, <<300, 310>>>>],
    [key |-> 6, type |-> "LineString", id |-> 16, name |-> "",
     coordinates |-> <<<<300, 300>>>>],
    [key |-> 7, type |-> "LineString", id |-> 21, name |-> "Spur",
     coordinates |-> <<<<0, 1000>>, <<40, 1000>>, <<80, 1000>>>>],
    [key |-> 8, type |-> "LineString", id |-> 21, name |-> "Spur",
     coordinates |-> <<<<101, 1000>>, <<140, 1000>>, <<180, 1000>>>>],
    [key |-> 9, type |-> "LineString", id |-> 31, name |-> "Gully",
     coordinates |-> <<<<0, 2000>>, <<40, 2000>>, <<80, 2000>>>>],
    [key |-> 10, type |-> "LineString", id |-> 32, name |-> "Tarn",
     coordinates |-> <<<<300, 2000>>, <<300, 2100>>>>],
    [key |-> 11, type |-> "LineString", id |-> 33, name |-> "Bench",
     coordinates |-> <<<<40, 2025>>, <<40, 2100>>, <<290, 2100>>>>]
>>

\* map.queryRenderedFeatures(bbox, {layers: ["trails"]}): the features with
\* a rendered point or segment inside the pixel box
queryRenderedFeatures(minX, minY, maxX, maxY) ==
    LET inBox(a, b) ==
            LET pa == project(a)
                pb == project(b)
            IN /\ Max(pa.x, pb.x) >= minX /\ Min(pa.x, pb.x) <= maxX
               /\ Max(pa.y, pb.y) >= minY /\ Min(pa.y, pb.y) <= maxY
        hit(t) == LET cs == t.coordinates
                  IN \E i \in 1..Len(cs) : inBox(cs[i], cs[IF i < Len(cs) THEN i + 1 ELSE i])
    IN SelectSeq(World, hit)

----------------------------------------------------------------------------
(* Values standing for null and for a thrown exception *)

NullRef == [isNull |-> TRUE]
NoFeature == [key |-> 0]
NoIndex == -1

\* The collaborator call that throws while one event is handled, named by
\* the function that makes the call
Faults == {"none", "snap.project", "snap.nearestPointOnLine", "merge.distance",
           "related.lineSlice", "connect.project", "connect.nearestPointOnLine",
           "connect.distance", "spur.length"}

IsLineCandidate(trail) == trail.type = "LineString" /\ Len(trail.coordinates) >= 2

----------------------------------------------------------------------------
(* snapToTrail *)

Unsnapped(coord) ==
    [threw |-> FALSE, coordinates |-> coord, snapped |-> FALSE,
     trailFeature |-> NoFeature, indexOnLine |-> NoIndex]

Thrown(coord) ==
    [threw |-> TRUE, coordinates |-> coord, snapped |-> FALSE,
     trailFeature |-> NoFeature, indexOnLine |-> NoIndex]

\* squared pixel distance from the query pixel to a trail's nearest point
SnapPixelDist2(trail, coord) ==
    PixelDist2(project(nearestPointOnLine(trail.coordinates, coord).coordinates),
               project(coord))

\* the loop of snapToTrail with pixelDist <= bestPixelDist: the last
\* candidate at minimal pixel distance
BestTrail_lastTie(trails, coord) ==
    CHOOSE best \in
        {IF \A k \in DOMAIN dist : dist[k] < 0 THEN 0
         ELSE CHOOSE k \in DOMAIN dist :
                  /\ dist[k] >= 0
                  /\ \A j \in DOMAIN dist : dist[j] >= 0 => dist[k] <= dist[j]
                  /\ \A j \in DOMAIN dist : (j > k /\ dist[j] >= 0) => dist[j] > dist[k] :
         dist \in {[k \in 1..Len(trails) |->
                      IF IsLineCandidate(trails[k]) THEN SnapPixelDist2(trails[k], coord)
                      ELSE -1]}} : TRUE

\* the loop of snapToTrail: position, in trails, of the first candidate at
\* minimal pixel distance (0 when there is none)
BestTrail(trails, coord) ==
    CHOOSE best \in
        {IF \A k \in DOMAIN dist : dist[k] < 0 THEN 0
         ELSE CHOOSE k \in DOMAIN dist :
                  /\ dist[k] >= 0
                  /\ \A j \in DOMAIN dist : dist[j] >= 0 => dist[k] <= dist[j]
                  /\ \A j \in DOMAIN dist : (j < k /\ dist[j] >= 0) => dist[j] > dist[k] :
         dist \in {[k \in 1..Len(trails) |->
                      IF IsLineCandidate(trails[k]) THEN SnapPixelDist2(trails[k], coord)
                      ELSE -1]}} : TRUE

\* snapToTrail accepting the best candidate within twice the radius
SnapAmong_wide(trails, best, coord, fault) ==
    IF Len(trails) = 0 THEN Unsnapped(coord)
    ELSE IF best = 0 THEN Unsnapped(coord)
    ELSE IF fault = "snap.nearestPointOnLine" THEN Thrown(coord)
    ELSE IF SnapPixelDist2(trails[best], coord)
               <= (2 * SNAP_PIXEL_RADIUS) * (2 * SNAP_PIXEL_RADIUS)
    THEN CHOOSE result \in
             {[threw |-> FALSE, coordinates |-> bestPoint.coordinates, snapped |-> TRUE,
               trailFeature |-> trails[best], indexOnLine |-> bestPoint.index] :
              bestPoint \in {nearestPointOnLine(trails[best].coordinates, coord)}} : TRUE
    ELSE Unsnapped(coord)

\* snapToTrail once the trails were queried and the loop has chosen
SnapAmong(trails, best, coord, fault) ==
    IF Len(trails) = 0 THEN Unsnapped(coord)
    ELSE IF best = 0 THEN Unsnapped(coord)
    ELSE IF fault = "snap.nearestPointOnLine" THEN Thrown(coord)
    ELSE IF SnapPixelDist2(trails[best], coord) <= SNAP_PIXEL_RADIUS * SNAP_PIXEL_RADIUS
    THEN CHOOSE result \in
             {[threw |-> FALSE, coordinates |-> bestPoint.coordinates, snapped |-> TRUE,
               trailFeature |-> trails[best], indexOnLine |-> bestPoint.index] :
              bestPoint \in {nearestPointOnLine(trails[best].coordinates, coord)}} : TRUE
    ELSE Unsnapped(coord)

\* snapToTrail giving up once the session holds a vertex
snapToTrail_session(coord, fault) ==
    IF fault = "snap.project" THEN Thrown(coord)
    ELSE IF Len(routeCoords) > 0 THEN Unsnapped(coord)
    ELSE
    LET pixel == project(coord)
    IN CHOOSE result \in
           {SnapAmong(trails, BestTrail(trails, coord), coord, fault) :
            trails \in {queryRenderedFeatures(
                            pixel.x - SNAP_PIXEL_RADIUS, pixel.y - SNAP_PIXEL_RADIUS,
                            pixel.x + SNAP_PIXEL_RADIUS, pixel.y + SNAP_PIXEL_RADIUS)}} : TRUE

snapToTrail(coord, fault) ==
    IF fault = "snap.project" THEN Thrown(coord)
    ELSE
    LET pixel == project(coord)
    IN CHOOSE result \in
           {SnapAmong(trails, BestTrail(trails, coord), coord, fault) :
            trails \in {queryRenderedFeatures(
                            pixel.x - SNAP_PIXEL_RADIUS, pixel.y - SNAP_PIXEL_RADIUS,
                            pixel.x + SNAP_PIXEL_RADIUS, pixel.y + SNAP_PIXEL_RADIUS)}} : TRUE

\* a click storing null as the trail reference of every vertex
TrailRefOf_null(result) == NullRef

\* the trail reference stored with a vertex (handleMapClickForRoute)
TrailRefOf(result) ==
    IF result.snapped
    THEN [isNull |-> FALSE,
          trailCoords |-> result.trailFeature.coordinates,
          trailId |-> result.trailFeature.id,
          trailName |-> result.trailFeature.name,
          indexOnLine |-> result.indexOnLine]
    ELSE NullRef

----------------------------------------------------------------------------
(* trailsMatch: "same", "related" or "false" *)

\* a trail id that passes "if (id)": neither null nor 0
Truthy(id) == id # NullId /\ id # 0

\* trailsMatch comparing the whole coordinate arrays
trailsMatch_exact(refA, refB) ==
    IF refA.isNull \/ refB.isNull THEN "false"
    ELSE
    LET ac == refA.trailCoords
        bc == refB.trailCoords
    IN IF Len(ac) > 0 /\ ac = bc THEN "same"
       ELSE IF Truthy(refA.trailId) /\ Truthy(refB.trailId) /\ refA.trailId = refB.trailId
            THEN "related"
       ELSE IF refA.trailName # "" /\ refB.trailName # "" /\ refA.trailName = refB.trailName
            THEN "related"
       ELSE "false"

\* trailsMatch taking refA for the same trail as refB when it is no longer
\* than refB and has the same ends
trailsMatch_shorter(refA, refB) ==
    IF refA.isNull \/ refB.isNull THEN "false"
    ELSE
    LET ac == refA.trailCoords
        bc == refB.trailCoords
        lengthMatch == Len(ac) <= Len(bc)
        firstMatch == Len(ac) > 0 /\ Len(bc) > 0 /\ ac[1] = bc[1]
        lastMatch == Len(ac) > 0 /\ Len(bc) > 0 /\ Last(ac) = Last(bc)
    IN IF lengthMatch /\ firstMatch /\ lastMatch THEN "same"
       ELSE IF Truthy(refA.trailId) /\ Truthy(refB.trailId) /\ refA.trailId = refB.trailId
            THEN "related"
       ELSE IF refA.trailName # "" /\ refB.trailName # "" /\ refA.trailName = refB.trailName
            THEN "related"
       ELSE "false"

trailsMatch(refA, refB) ==
    IF refA.isNull \/ refB.isNull THEN "false"
    ELSE
    LET ac == refA.trailCoords
        bc == refB.trailCoords
        lengthMatch == Len(ac) = Len(bc)
        firstMatch == Len(ac) > 0 /\ Len(bc) > 0 /\ ac[1] = bc[1]
        lastMatch == Len(ac) > 0 /\ Len(bc) > 0 /\ Last(ac) = Last(bc)
    IN IF lengthMatch /\ firstMatch /\ lastMatch THEN "same"
       ELSE IF Truthy(refA.trailId) /\ Truthy(refB.trailId) /\ refA.trailId = refB.trailId
            THEN "related"
       ELSE IF refA.trailName # "" /\ refB.trailName # "" /\ refA.trailName = refB.trailName
            THEN "related"
       ELSE "false"

----------------------------------------------------------------------------
(* extractTrailSlice *)

\* extractTrailSlice starting from the trail vertex instead of startCoord
extractTrailSlice_reprojected(trailCoords, startCoord, startIdx, endCoord, endIdx) ==
    IF startIdx <= endIdx
    THEN <<trailCoords[startIdx + 1]>>
         \o [k \in 1..(endIdx - startIdx) |-> trailCoords[startIdx + k + 1]]
         \o <<endCoord>>
    ELSE <<trailCoords[startIdx + 1]>>
         \o [k \in 1..(startIdx - endIdx) |-> trailCoords[startIdx - k + 2]]
         \o <<endCoord>>

\* extractTrailSlice whose forward loop stops before endIdx (i < endIdx)
extractTrailSlice_exclusive(trailCoords, startCoord, startIdx, endCoord, endIdx) ==
    IF startIdx <= endIdx
    THEN <<startCoord>>
         \o [k \in 1..(endIdx - startIdx - 1) |-> trailCoords[startIdx + k + 1]]
         \o <<endCoord>>
    ELSE <<startCoord>>
         \o [k \in 1..(startIdx - endIdx) |-> trailCoords[startIdx - k + 2]]
         \o <<endCoord>>

\* extractTrailSlice whose backward loop also takes endIdx (i >= endIdx)
extractTrailSlice_backInclusive(trailCoords, startCoord, startIdx, endCoord, endIdx) ==
    IF startIdx <= endIdx
    THEN <<startCoord>>
         \o [k \in 1..(endIdx - startIdx) |-> trailCoords[startIdx + k + 1]]
         \o <<endCoord>>
    ELSE <<startCoord>>
         \o [k \in 1..(startIdx - endIdx + 1) |-> trailCoords[startIdx - k + 2]]
         \o <<endCoord>>

extractTrailSlice(trailCoords, startCoord, startIdx, endCoord, endIdx) ==
    LET forward == startIdx <= endIdx
    IN IF forward
       THEN <<startCoord>>
            \o [k \in 1..(endIdx - startIdx) |-> trailCoords[startIdx + k + 1]]
            \o <<endCoord>>
       ELSE <<startCoord>>
            \o [k \in 1..(startIdx - endIdx) |-> trailCoords[startIdx - k + 2]]
            \o <<endCoord>>

----------------------------------------------------------------------------
(* mergeTrailFragments *)

NoMerge == [threw |-> FALSE, ok |-> FALSE, coords |-> <<>>]
Merged(cs) == [threw |-> FALSE, ok |-> TRUE, coords |-> cs]

\* the gap test with < in place of <=
WithinGap_strict(a, b) ==
    DistMeters2(a, b) < MERGE_GAP_TOLERANCE_METERS * MERGE_GAP_TOLERANCE_METERS

WithinGap(a, b) ==
    DistMeters2(a, b) <= MERGE_GAP_TOLERANCE_METERS * MERGE_GAP_TOLERANCE_METERS

\* mergeTrailFragments joining at the smallest of the four gaps
mergeTrailFragments_closest(coordsA, coordsB, fault) ==
    IF Len(coordsA) = 0 \/ Len(coordsB) = 0 THEN NoMerge
    ELSE IF fault = "merge.distance" THEN [threw |-> TRUE, ok |-> FALSE, coords |-> <<>>]
    ELSE
    LET aEnd == Last(coordsA)
        bStart == coordsB[1]
        bEnd == Last(coordsB)
        aStart == coordsA[1]
        minGap == CHOOSE g \in {DistMeters2(aEnd, bStart), DistMeters2(aEnd, bEnd),
                                DistMeters2(bEnd, aStart), DistMeters2(bStart, aStart)} :
                      \A h \in {DistMeters2(aEnd, bStart), DistMeters2(aEnd, bEnd),
                                DistMeters2(bEnd, aStart), DistMeters2(bStart, aStart)} : g <= h
    IN IF ~WithinGap(aEnd, bStart) /\ ~WithinGap(aEnd, bEnd)
          /\ ~WithinGap(bEnd, aStart) /\ ~WithinGap(bStart, aStart) THEN NoMerge
       ELSE IF DistMeters2(aEnd, bStart) = minGap THEN Merged(coordsA \o Rest(coordsB))
       ELSE IF DistMeters2(aEnd, bEnd) = minGap THEN Merged(coordsA \o Rest(Reverse(coordsB)))
       ELSE IF DistMeters2(bEnd, aStart) = minGap THEN Merged(coordsB \o Rest(coordsA))
       ELSE Merged(Reverse(coordsB) \o Rest(coordsA))

mergeTrailFragments(coordsA, coordsB, fault) ==
    IF Len(coordsA) = 0 \/ Len(coordsB) = 0 THEN NoMerge
    ELSE IF fault = "merge.distance" THEN [threw |-> TRUE, ok |-> FALSE, coords |-> <<>>]
    ELSE
    LET aEnd == Last(coordsA)
        bStart == coordsB[1]
        bEnd == Last(coordsB)
        aStart == coordsA[1]
    IN IF WithinGap(aEnd, bStart) THEN Merged(coordsA \o Rest(coordsB))
       ELSE IF WithinGap(aEnd, bEnd) THEN Merged(coordsA \o Rest(Reverse(coordsB)))
       ELSE IF WithinGap(bEnd, aStart) THEN Merged(coordsB \o Rest(coordsA))
       ELSE IF WithinGap(bStart, aStart) THEN Merged(Reverse(coordsB) \o Rest(coordsA))
       ELSE NoMerge

----------------------------------------------------------------------------
(* tryConnectTrails *)

PREFILTER_PAD == 500    \* 0.005 degrees, about 500 m

NoConnection == [threw |-> FALSE, found |-> FALSE, coords |-> <<>>,
                 isTrailSnapped |-> FALSE, strategy |-> "none"]
ConnectThrown == [threw |-> TRUE, found |-> FALSE, coords |-> <<>>,
                  isTrailSnapped |-> FALSE, strategy |-> "none"]

\* the bounding-box prefilter of the single-trail pass
NearBox(trail, coord) ==
    LET tc == trail.coordinates
        lngs == {tc[k][1] : k \in 1..Len(tc)}
        lats == {tc[k][2] : k \in 1..Len(tc)}
        tMinLng == CHOOSE v \in lngs : \A w \in lngs : v <= w
        tMaxLng == CHOOSE v \in lngs : \A w \in lngs : v >= w
        tMinLat == CHOOSE v \in lats : \A w \in lats : v <= w
        tMaxLat == CHOOSE v \in lats : \A w \in lats : v >= w
    IN /\ coord[1] >= tMinLng - PREFILTER_PAD /\ coord[1] <= tMaxLng + PREFILTER_PAD
       /\ coord[2] >= tMinLat - PREFILTER_PAD /\ coord[2] <= tMaxLat + PREFILTER_PAD

\* the widened acceptance window: within 2 x SNAP_PIXEL_RADIUS pixels
NearTrail(trail, coord) ==
    SnapPixelDist2(trail, coord) <= (SNAP_PIXEL_RADIUS * 2) * (SNAP_PIXEL_RADIUS * 2)

\* the corridor query of tryConnectTrails
CorridorTrails(prevCoord, currCoord) ==
    LET p1 == project(prevCoord)
        p2 == project(currCoord)
    IN queryRenderedFeatures(Min(p1.x, p2.x) - SNAP_PIXEL_RADIUS, Min(p1.y, p2.y) - SNAP_PIXEL_RADIUS,
                             Max(p1.x, p2.x) + SNAP_PIXEL_RADIUS, Max(p1.y, p2.y) + SNAP_PIXEL_RADIUS)

\* trails of the single-trail pass that reach the projection step
Prefiltered(trails, prevCoord, currCoord) ==
    SelectSeq(trails, LAMBDA t : IsLineCandidate(t) /\ NearBox(t, prevCoord) /\ NearBox(t, currCoord))

\* the single-trail pass: the trails near both endpoints, the first is used
Bridging(prefiltered, prevCoord, currCoord) ==
    SelectSeq(prefiltered, LAMBDA t : NearTrail(t, prevCoord) /\ NearTrail(t, currCoord))

\* extractTrailSlice between the vertex indices turf reports for two points
SliceAlong(trailCoords, startCoord, nearStart, endCoord, nearEnd) ==
    CHOOSE slice \in {extractTrailSlice(trailCoords, startCoord, startIdx, endCoord, endIdx) :
                         startIdx \in {nearStart.index}, endIdx \in {nearEnd.index}} : TRUE

\* the two-hop search looking for junctions at the ends of trail A only
Junctions_ends(prevCandidates, currCandidates) ==
    UNION {UNION {{<<p, c, a, b>> : a \in {0, Len(prevCandidates[p].coordinates) - 1},
                                    b \in 0..(Len(currCandidates[c].coordinates) - 1)}
                  : c \in {k \in 1..Len(currCandidates) :
                              currCandidates[k].key # prevCandidates[p].key}}
           : p \in 1..Len(prevCandidates)}

\* the junctions of the two-hop search: <<pc, cc, ai, bi>>, positions in
\* the candidate lists and 0-based vertex indices of a coordinate pair
\* within the gap tolerance, on two different trail objects
Junctions(prevCandidates, currCandidates) ==
    UNION {UNION {{<<p, c, a, b>> : a \in 0..(Len(prevCandidates[p].coordinates) - 1),
                                    b \in 0..(Len(currCandidates[c].coordinates) - 1)}
                  : c \in {k \in 1..Len(currCandidates) :
                              currCandidates[k].key # prevCandidates[p].key}}
           : p \in 1..Len(prevCandidates)}

IsJunction(prevCandidates, currCandidates, q) ==
    WithinGap(prevCandidates[q[1]].coordinates[q[3] + 1],
              currCandidates[q[2]].coordinates[q[4] + 1])

\* the order in which the four nested loops visit the coordinate pairs
LexLess(p, q) ==
    \E k \in 1..4 : p[k] < q[k] /\ \A j \in 1..(k - 1) : p[j] = q[j]

\* the stitched path through junction q
Stitch(pc, cc, q, prevCoord, currCoord) ==
    CHOOSE stitched \in
        {legA \o Rest(legB) :
         legA \in {SliceAlong(pc.coordinates, prevCoord,
                              nearestPointOnLine(pc.coordinates, prevCoord),
                              pc.coordinates[q[3] + 1], [index |-> q[3]])},
         legB \in {SliceAlong(cc.coordinates, pc.coordinates[q[3] + 1], [index |-> q[4]],
                              currCoord, nearestPointOnLine(cc.coordinates, currCoord))}} : TRUE

\* the two-hop junction search over the candidates near each endpoint
TwoHop(prevCandidates, currCandidates, junctions, prevCoord, currCoord, fault) ==
    IF fault = "connect.distance"
       /\ \E p \in 1..Len(prevCandidates), c \in 1..Len(currCandidates) :
              prevCandidates[p].key # currCandidates[c].key
    THEN ConnectThrown
    ELSE IF junctions = {} THEN NoConnection
    ELSE CHOOSE found \in
             {[threw |-> FALSE, found |-> TRUE,
               coords |-> Stitch(prevCandidates[q[1]], currCandidates[q[2]], q,
                                 prevCoord, currCoord),
               isTrailSnapped |-> TRUE, strategy |-> "twohop",
               junction |-> prevCandidates[q[1]].coordinates[q[3] + 1]] :
              q \in {r \in junctions : \A o \in junctions : o = r \/ LexLess(r, o)}} : TRUE

\* tryConnectTrails using the last bridging trail of the corridor
ConnectAmong_last(lines, prefiltered, bridging, prevCoord, currCoord, fault) ==
    IF fault = "connect.nearestPointOnLine" /\ Len(prefiltered) > 0 THEN ConnectThrown
    ELSE IF Len(bridging) > 0
    THEN [threw |-> FALSE, found |-> TRUE,
          coords |-> SliceAlong(Last(bridging).coordinates,
                         prevCoord, nearestPointOnLine(Last(bridging).coordinates, prevCoord),
                         currCoord, nearestPointOnLine(Last(bridging).coordinates, currCoord)),
          isTrailSnapped |-> TRUE, strategy |-> "bridge"]
    ELSE IF fault = "connect.nearestPointOnLine" /\ Len(lines) > 0 THEN ConnectThrown
    ELSE CHOOSE result \in
             {TwoHop(prevCandidates, currCandidates,
                     {q \in Junctions(prevCandidates, currCandidates) :
                         IsJunction(prevCandidates, currCandidates, q)},
                     prevCoord, currCoord, fault) :
              prevCandidates \in {SelectSeq(lines, LAMBDA t : NearTrail(t, prevCoord))},
              currCandidates \in {SelectSeq(lines, LAMBDA t : NearTrail(t, currCoord))}} : TRUE

\* tryConnectTrails once the corridor was queried: lines are the LineString
\* trails of the corridor, prefiltered and bridging those of the first pass
ConnectAmong(lines, prefiltered, bridging, prevCoord, currCoord, fault) ==
    IF fault = "connect.nearestPointOnLine" /\ Len(prefiltered) > 0 THEN ConnectThrown
    ELSE IF Len(bridging) > 0
    THEN [threw |-> FALSE, found |-> TRUE,
          coords |-> SliceAlong(bridging[1].coordinates,
                         prevCoord, nearestPointOnLine(bridging[1].coordinates, prevCoord),
                         currCoord, nearestPointOnLine(bridging[1].coordinates, currCoord)),
          isTrailSnapped |-> TRUE, strategy |-> "bridge"]
    ELSE IF fault = "connect.nearestPointOnLine" /\ Len(lines) > 0 THEN ConnectThrown
    ELSE CHOOSE result \in
             {TwoHop(prevCandidates, currCandidates,
                     {q \in Junctions(prevCandidates, currCandidates) :
                         IsJunction(prevCandidates, currCandidates, q)},
                     prevCoord, currCoord, fault) :
              prevCandidates \in {SelectSeq(lines, LAMBDA t : NearTrail(t, prevCoord))},
              currCandidates \in {SelectSeq(lines, LAMBDA t : NearTrail(t, currCoord))}} : TRUE

tryConnectTrails(prevRef, currRef, prevCoord, currCoord, fault) ==
    IF fault = "connect.project" THEN ConnectThrown
    ELSE CHOOSE result \in
             {CHOOSE r \in
                  {ConnectAmong(SelectSeq(corridorTrails, IsLineCandidate), prefiltered,
                                Bridging(prefiltered, prevCoord, currCoord),
                                prevCoord, currCoord, fault) :
                   prefiltered \in {Prefiltered(corridorTrails, prevCoord, currCoord)}} : TRUE :
              corridorTrails \in {CorridorTrails(prevCoord, currCoord)}} : TRUE

----------------------------------------------------------------------------
(* getTrailSegmentBetween.  strategy names the branch that produced the    *)
(* result; the JavaScript object has coords and isTrailSnapped only.       *)

StraightLine(prevCoord, currCoord, why) ==
    [threw |-> FALSE, coords |-> <<prevCoord, currCoord>>, isTrailSnapped |-> FALSE,
     strategy |-> why]

\* the "related" branch once the merged line was sliced: pin the endpoints
PinEndpoints(sc, prevCoord, currCoord) ==
    IF Len(sc) >= 2
    THEN [threw |-> FALSE, found |-> TRUE,
          coords |-> [k \in 1..Len(sc) |->
                         IF k = Len(sc) THEN currCoord
                         ELSE IF k = 1 THEN prevCoord ELSE sc[k]],
          isTrailSnapped |-> TRUE, strategy |-> "merge"]
    ELSE NoConnection

\* the "related" branch: merge the two fragments, slice, pin the endpoints
RelatedSlice(prevRef, currRef, prevCoord, currCoord, fault) ==
    CHOOSE related \in
        {IF merged.threw \/ ~merged.ok THEN NoConnection
         ELSE IF fault = "related.lineSlice" THEN NoConnection
         ELSE PinEndpoints(lineSlice(prevCoord, currCoord, merged.coords), prevCoord, currCoord) :
         merged \in {mergeTrailFragments(prevRef.trailCoords, currRef.trailCoords, fault)}} : TRUE

\* what getTrailSegmentBetween returns for the outcome of its connecting steps
SegmentOf(result, prevCoord, currCoord) ==
    IF result.threw
    THEN [threw |-> TRUE, coords |-> <<>>, isTrailSnapped |-> FALSE, strategy |-> "none"]
    ELSE IF ~result.found THEN StraightLine(prevCoord, currCoord, "fallback")
    ELSE [threw |-> FALSE, coords |-> result.coords,
          isTrailSnapped |-> result.isTrailSnapped, strategy |-> result.strategy]

\* the "same" branch
SameSlice(slicedCoords, prevCoord, currCoord) ==
    IF Len(slicedCoords) >= 2
    THEN [threw |-> FALSE, coords |-> slicedCoords, isTrailSnapped |-> TRUE,
          strategy |-> "same"]
    ELSE StraightLine(prevCoord, currCoord, "fallback")

\* the branches below "same": related fragments first, then tryConnectTrails
Connected(related, prevRef, currRef, prevCoord, currCoord, fault) ==
    IF related.found THEN related
    ELSE tryConnectTrails(prevRef, currRef, prevCoord, currCoord, fault)

getTrailSegmentBetween(prevRef, currRef, prevCoord, currCoord, fault) ==
    IF prevRef.isNull \/ currRef.isNull THEN StraightLine(prevCoord, currCoord, "unsnapped")
    ELSE CHOOSE segment \in
             {IF match = "same"
              THEN SameSlice(extractTrailSlice(prevRef.trailCoords,
                                 prevCoord, prevRef.indexOnLine,
                                 currCoord, currRef.indexOnLine),
                             prevCoord, currCoord)
              ELSE SegmentOf(Connected(IF match = "related"
                                       THEN RelatedSlice(prevRef, currRef, prevCoord,
                                                         currCoord, fault)
                                       ELSE NoConnection,
                                       prevRef, currRef, prevCoord, currCoord, fault),
                             prevCoord, currCoord) :
              match \in {trailsMatch(prevRef, currRef)}} : TRUE

----------------------------------------------------------------------------
(* Route assembly *)

\* turf.length of a polyline in metres, each edge rounded down to the metre
edgeLength(a, b) ==
    LET dx == Abs(a[1] - b[1])
        dy == Abs(a[2] - b[2])
    IN CHOOSE r \in Max(dx, dy)..(dx + dy) :
           r * r <= dx * dx + dy * dy /\ (r + 1) * (r + 1) > dx * dx + dy * dy

turfLength(cs) == SumSeq([k \in 1..(Len(cs) - 1) |-> edgeLength(cs[k], cs[k + 1])])

findLastMainRouteVertexIndex(types, upToIndex) ==
    LET main == {i \in 0..upToIndex : types[i + 1] # "dayhike"}
    IN IF main = {} THEN 0 ELSE CHOOSE i \in main : \A j \in main : j <= i

\* buildMainRouteDisplayCoords.  coords is the returned array; alias is the
\* number of the segment whose coords array the returned array is (0 when
\* it is a fresh array, as it always is here: [...routeSegments[0].coords]).
RECURSIVE AppendSegments_keepFirst(_, _, _)
AppendSegments_keepFirst(coords, segments, i) ==
    IF i > Len(segments) THEN coords
    ELSE AppendSegments_keepFirst(coords \o segments[i].coords, segments, i + 1)

RECURSIVE AppendSegments(_, _, _)
AppendSegments(coords, segments, i) ==
    IF i > Len(segments) THEN coords
    ELSE LET segCoords == segments[i].coords
             startJ == IF Len(segCoords) > 0 /\ Len(coords) > 0 /\ Last(coords) # segCoords[1]
                       THEN 0 ELSE 1
         IN AppendSegments(coords \o SubSeq(segCoords, startJ + 1, Len(segCoords)),
                           segments, i + 1)

\* buildMainRouteDisplayCoords returning routeSegments[0].coords itself
\* (no spread copy) when there is a single segment
buildMainRouteDisplayCoords_shared(segments, coords, types) ==
    IF Len(segments) = 0
    THEN LET mainVertices == SelectSeq([k \in 1..Len(coords) |-> <<coords[k], types[k]>>],
                                       LAMBDA v : v[2] # "dayhike")
         IN [coords |-> IF Len(mainVertices) > 0 THEN <<mainVertices[1][1]>> ELSE <<>>,
             alias |-> 0]
    ELSE [coords |-> AppendSegments(segments[1].coords, segments, 2),
          alias |-> IF Len(segments) = 1 THEN 1 ELSE 0]

buildMainRouteDisplayCoords(segments, coords, types) ==
    IF Len(segments) = 0
    THEN LET mainVertices == SelectSeq([k \in 1..Len(coords) |-> <<coords[k], types[k]>>],
                                       LAMBDA v : v[2] # "dayhike")
         IN [coords |-> IF Len(mainVertices) > 0 THEN <<mainVertices[1][1]>> ELSE <<>>,
             alias |-> 0]
    ELSE [coords |-> AppendSegments(segments[1].coords, segments, 2), alias |-> 0]

computeMainRouteDistance(segments) ==
    SumSeq([k \in 1..Len(segments) |->
               IF Len(segments[k].coords) >= 2 THEN turfLength(segments[k].coords) ELSE 0])

\* computeDayhikeDistance adding each spur once
computeDayhikeDistance_oneWay(spurs) ==
    SumSeq([k \in 1..Len(spurs) |-> spurs[k].distance])

computeDayhikeDistance(spurs) ==
    SumSeq([k \in 1..Len(spurs) |-> spurs[k].distance * 2])

\* updateRouteDrawing(previewCoord): the main line, the preview spur, and
\* the segments as mainCoords.push leaves them.  preview is <<>> for no
\* argument and <<coord>> for a cursor position.
updateRouteDrawing(segments, coords, types, pointType, preview) ==
    LET built == buildMainRouteDisplayCoords(segments, coords, types)
        extend == preview # <<>> /\ pointType # "dayhike" /\ Len(built.coords) >= 1
        mainCoords == IF extend THEN built.coords \o preview ELSE built.coords
        spur == IF preview # <<>> /\ pointType = "dayhike" /\ Len(coords) >= 1
                THEN <<coords[findLastMainRouteVertexIndex(types, Len(coords) - 1) + 1],
                       preview[1]>>
                ELSE <<>>
    IN [source |-> [main |-> IF Len(mainCoords) >= 2 THEN mainCoords ELSE <<>>,
                    previewSpur |-> spur],
        segments |-> IF extend /\ built.alias # 0
                     THEN [segments EXCEPT ![built.alias].coords = mainCoords]
                     ELSE segments]

----------------------------------------------------------------------------
(* Click and cursor positions, and the results of snapping and connecting  *)
(* them, tabulated once                                                    *)

\* clicks of a session: near the Ridge trail, snapping to its segment 5
\* unless the bypass key is held
SessionCoords == {<<55, 3>>}

\* also: on segment 9 of Ridge, on a vertex of Ridge, on the fragment that
\* continues Ridge within the merge tolerance (inside a segment and on a
\* vertex), on the fragment named Ridge
\* beyond it, on Creek near Ridge, on Creek far from Ridge,
\* and far from every trail
GeoCoords == SessionCoords \cup
             {<<95, 0>>, <<60, 2>>, <<130, 2>>, <<140, 0>>, <<220, 5>>, <<50, 12>>,
              <<50, 80>>, <<300, 300>>}

AllCoords == SessionCoords \cup GeoCoords

SnapTable == [f \in Faults |-> [c \in AllCoords |-> snapToTrail(c, f)]]

\* a vertex as the click handler stores it
VertexOf(result) == [coord |-> result.coordinates, ref |-> TrailRefOf(result)]

AllVertices ==
    {VertexOf(SnapTable["none"][c]) : c \in AllCoords} \cup {VertexOf(Unsnapped(c)) : c \in AllCoords}

SegmentTable ==
    [f \in Faults |-> [p \in AllVertices \X AllVertices |->
        getTrailSegmentBetween(p[1].ref, p[2].ref, p[1].coord, p[2].coord, f)]]

\* snapToTrail and getTrailSegmentBetween as the handlers call them
Snap(coord, fault) == SnapTable[fault][coord]
SegmentBetween(prevRef, currRef, prevCoord, currCoord, fault) ==
    SegmentTable[fault][<<[coord |-> prevCoord, ref |-> prevRef],
                          [coord |-> currCoord, ref |-> currRef]>>]

----------------------------------------------------------------------------
(* State *)

NoPreview == [isNull |-> TRUE]
NoSegment == [coords |-> <<>>, isTrailSnapped |-> FALSE, strategy |-> "none"]
EmptySource == [main |-> <<>>, previewSpur |-> <<>>]

\* what a click leaves in lastCall: whether an exception left the handler,
\* whether getTrailSegmentBetween was called, from which vertex, its result
NoCall == [threw |-> FALSE, segCalled |-> FALSE, fromIdx |-> 0, segment |-> NoSegment]
Call(threw) == [threw |-> threw, segCalled |-> FALSE, fromIdx |-> 0, segment |-> NoSegment]
SegCall(threw, fromIdx, segment) ==
    [threw |-> threw, segCalled |-> TRUE, fromIdx |-> fromIdx,
     segment |-> [coords |-> segment.coords, isTrailSnapped |-> segment.isTrailSnapped,
                  strategy |-> segment.strategy]]

\* Dates are day numbers; 0 stands for "" (no date)
NoDate == 0

\* new Date(day + "T00:00:00").toISOString().slice(0, 10) in a browser whose
\* local time is zone hours ahead of UTC: the UTC date of local midnight
toISODate(day, zone) == (day * 24 - zone) \div 24

\* getTripDateRange() for a trip whose properties.dates are meta
getTripDateRange(meta, zone) ==
    IF meta.start = NoDate \/ meta.end = NoDate \/ meta.start > meta.end THEN <<>>
    ELSE [n \in 1..(meta.end - meta.start + 1) |-> toISODate(meta.start + n - 1, zone)]

\* the dates of the trip of the drawing sessions, in a browser on UTC
TripMeta == [start |-> 1, end |-> 2]
TripDates == getTripDateRange(TripMeta, 0)

\* no terra-draw instance ("let draw = null"), and one in a mode
NoDraw == [isNull |-> TRUE]
Draw(mode) == [isNull |-> FALSE, mode |-> mode]

\* no function application on record
NoProbe == [fn |-> "none", args |-> <<>>, applied |-> FALSE, out |-> <<>>]

\* the drawing session after the script has loaded
LoadedSession ==
    /\ pendingFeatureType = "null"
    /\ isDrawingRoute = FALSE
    /\ routeCoords = <<>>
    /\ routeSnapped = <<>>
    /\ routeVertexTypes = <<>>
    /\ routeTrailRefs = <<>>
    /\ routeSegments = <<>>
    /\ routeDayhikeSegments = <<>>
    /\ currentPointType = "route"
    /\ mouseMoveHandler = FALSE
    /\ keyHandler = FALSE
    /\ snapPreview = NoPreview
    /\ drawingSource = EmptySource
    /\ lastCall = NoCall
    /\ clicks = 0

\* the module state after the script has loaded, the trip without features
Loaded == LoadedSession /\ features = <<>> /\ draw = NoDraw

Init == Loaded /\ probe = NoProbe

----------------------------------------------------------------------------
(* Handlers *)

\* startRouteDrawing without routeSnapped = []
startRouteDrawing_keepSnapped ==
    /\ isDrawingRoute' = TRUE
    /\ routeCoords' = <<>>
    /\ routeVertexTypes' = <<>>
    /\ routeTrailRefs' = <<>>
    /\ routeSegments' = <<>>
    /\ routeDayhikeSegments' = <<>>
    /\ currentPointType' = "route"
    /\ pendingFeatureType' = "route"
    /\ drawingSource' = updateRouteDrawing(<<>>, <<>>, <<>>, "route", <<>>).source
    /\ snapPreview' = NoPreview
    /\ mouseMoveHandler' = TRUE
    /\ keyHandler' = TRUE
    /\ lastCall' = NoCall
    /\ UNCHANGED <<routeSnapped, features, clicks>>

\* startRouteDrawing without routeSegments = []
startRouteDrawing_keepSegments ==
    /\ isDrawingRoute' = TRUE
    /\ routeCoords' = <<>>
    /\ routeSnapped' = <<>>
    /\ routeVertexTypes' = <<>>
    /\ routeTrailRefs' = <<>>
    /\ routeDayhikeSegments' = <<>>
    /\ currentPointType' = "route"
    /\ pendingFeatureType' = "route"
    /\ drawingSource' = updateRouteDrawing(<<>>, <<>>, <<>>, "route", <<>>).source
    /\ snapPreview' = NoPreview
    /\ mouseMoveHandler' = TRUE
    /\ keyHandler' = TRUE
    /\ lastCall' = NoCall
    /\ UNCHANGED <<routeSegments, features, clicks>>

startRouteDrawing ==
    /\ isDrawingRoute' = TRUE
    /\ routeCoords' = <<>>
    /\ routeSnapped' = <<>>
    /\ routeVertexTypes' = <<>>
    /\ routeTrailRefs' = <<>>
    /\ routeSegments' = <<>>
    /\ routeDayhikeSegments' = <<>>
    /\ currentPointType' = "route"
    /\ pendingFeatureType' = "route"
    /\ drawingSource' = updateRouteDrawing(<<>>, <<>>, <<>>, "route", <<>>).source
    /\ snapPreview' = NoPreview
    /\ mouseMoveHandler' = TRUE
    /\ keyHandler' = TRUE
    /\ lastCall' = NoCall
    /\ UNCHANGED <<features, clicks>>

\* resetRouteDrawing without routeDayhikeSegments = []
resetRouteDrawing_keepSpurs ==
    /\ isDrawingRoute' = FALSE
    /\ routeCoords' = <<>>
    /\ routeSnapped' = <<>>
    /\ routeVertexTypes' = <<>>
    /\ routeTrailRefs' = <<>>
    /\ routeSegments' = <<>>
    /\ UNCHANGED routeDayhikeSegments
    /\ currentPointType' = "route"
    /\ drawingSource' = updateRouteDrawing(<<>>, <<>>, <<>>, "route", <<>>).source
    /\ snapPreview' = NoPreview
    /\ mouseMoveHandler' = FALSE
    /\ keyHandler' = FALSE
    /\ lastCall' = NoCall

\* resetRouteDrawing, as the assignments it makes
resetRouteDrawing ==
    /\ isDrawingRoute' = FALSE
    /\ routeCoords' = <<>>
    /\ routeSnapped' = <<>>
    /\ routeVertexTypes' = <<>>
    /\ routeTrailRefs' = <<>>
    /\ routeSegments' = <<>>
    /\ routeDayhikeSegments' = <<>>
    /\ currentPointType' = "route"
    /\ drawingSource' = updateRouteDrawing(<<>>, <<>>, <<>>, "route", <<>>).source
    /\ snapPreview' = NoPreview
    /\ mouseMoveHandler' = FALSE
    /\ keyHandler' = FALSE
    /\ lastCall' = NoCall

\* cancelDrawing without pendingFeatureType = null
cancelDrawing_keepPending ==
    /\ IF isDrawingRoute
       THEN resetRouteDrawing
       ELSE UNCHANGED <<isDrawingRoute, routeCoords, routeSnapped, routeVertexTypes,
                        routeTrailRefs, routeSegments, routeDayhikeSegments,
                        currentPointType, drawingSource, snapPreview,
                        mouseMoveHandler, keyHandler, lastCall>>
    /\ UNCHANGED pendingFeatureType
    /\ UNCHANGED <<features, clicks>>

\* cancelDrawing: Escape, or closing the trip panel
cancelDrawing ==
    /\ IF isDrawingRoute
       THEN resetRouteDrawing
       ELSE UNCHANGED <<isDrawingRoute, routeCoords, routeSnapped, routeVertexTypes,
                        routeTrailRefs, routeSegments, routeDayhikeSegments,
                        currentPointType, drawingSource, snapPreview,
                        mouseMoveHandler, keyHandler, lastCall>>
    /\ pendingFeatureType' = "null"
    /\ UNCHANGED <<features, clicks>>

\* handleMapClickForRoute after the vertex was pushed and the segment from
\* vertex fromIdx was computed
PushSegment(segment, coords1, types1, lastMainIdx, fromIdx, fault) ==
    IF segment.threw
       \/ (currentPointType = "dayhike" /\ Len(segment.coords) >= 2 /\ fault = "spur.length")
    THEN \* the exception leaves the handler after the vertex was pushed
         /\ UNCHANGED <<routeSegments, routeDayhikeSegments, drawingSource>>
         /\ lastCall' = SegCall(TRUE, fromIdx, NoSegment)
    ELSE IF currentPointType = "dayhike"
    THEN /\ routeDayhikeSegments' = Append(routeDayhikeSegments,
                [fromVertexIndex |-> lastMainIdx,
                 coords |-> segment.coords,
                 distance |-> IF Len(segment.coords) >= 2
                              THEN turfLength(segment.coords) ELSE 0])
         /\ UNCHANGED routeSegments
         /\ drawingSource' = updateRouteDrawing(routeSegments, coords1, types1,
                                 currentPointType, <<>>).source
         /\ lastCall' = SegCall(FALSE, fromIdx, segment)
    ELSE /\ routeSegments' = Append(routeSegments,
                [coords |-> segment.coords, isTrailSnapped |-> segment.isTrailSnapped])
         /\ UNCHANGED routeDayhikeSegments
         /\ drawingSource' = updateRouteDrawing(routeSegments', coords1, types1,
                                 currentPointType, <<>>).source
         /\ lastCall' = SegCall(FALSE, fromIdx, segment)

\* handleMapClickForRoute from the second vertex on: the segment or spur
\* from vertex fromIdx to the new vertex
ConnectVertex(coords1, types1, refs1, lastMainIdx, fromIdx, fault) ==
    \E segment \in {SegmentBetween(refs1[fromIdx + 1], refs1[Len(coords1)],
                                    coords1[fromIdx + 1], coords1[Len(coords1)], fault)} :
        PushSegment(segment, coords1, types1, lastMainIdx, fromIdx, fault)

\* handleMapClickForRoute after snapToTrail returned result
PushVertex(result, coords1, types1, refs1, prevIdx, fault) ==
    /\ routeCoords' = coords1
    /\ routeSnapped' = Append(routeSnapped, result.snapped)
    /\ routeVertexTypes' = types1
    /\ routeTrailRefs' = refs1
    /\ IF Len(coords1) < 2
       THEN /\ UNCHANGED <<routeSegments, routeDayhikeSegments>>
            /\ drawingSource' = updateRouteDrawing(routeSegments, coords1, types1,
                                    currentPointType, <<>>).source
            /\ lastCall' = Call(FALSE)
       ELSE \E lastMainIdx \in {findLastMainRouteVertexIndex(types1, prevIdx)} :
                ConnectVertex(coords1, types1, refs1, lastMainIdx,
                              IF currentPointType = "dayhike" THEN lastMainIdx
                              ELSE IF types1[prevIdx + 1] = "dayhike" THEN lastMainIdx
                              ELSE prevIdx,
                              fault)

\* handleMapClickForRoute calling snapToTrail whether or not shift is held
handleMapClickForRoute_alwaysSnap(coord, shift, fault) ==
    /\ isDrawingRoute
    /\ clicks' = clicks + 1
    /\ UNCHANGED <<pendingFeatureType, isDrawingRoute, currentPointType,
                   mouseMoveHandler, keyHandler, snapPreview, features>>
    /\ \E result \in {Snap(coord, fault)} :
          IF result.threw
          THEN \* snapToTrail threw: nothing was pushed
               /\ lastCall' = Call(TRUE)
               /\ UNCHANGED <<routeCoords, routeSnapped, routeVertexTypes, routeTrailRefs,
                              routeSegments, routeDayhikeSegments, drawingSource>>
          ELSE PushVertex(result, Append(routeCoords, result.coordinates),
                          Append(routeVertexTypes, currentPointType),
                          Append(routeTrailRefs, TrailRefOf(result)),
                          Len(routeCoords) - 1, fault)

\* handleMapClickForRoute(e): e.lngLat = coord, e.originalEvent.shiftKey = shift
handleMapClickForRoute(coord, shift, fault) ==
    /\ isDrawingRoute
    /\ clicks' = clicks + 1
    /\ UNCHANGED <<pendingFeatureType, isDrawingRoute, currentPointType,
                   mouseMoveHandler, keyHandler, snapPreview, features>>
    /\ \E result \in {IF shift THEN Unsnapped(coord) ELSE Snap(coord, fault)} :
          IF result.threw
          THEN \* snapToTrail threw: nothing was pushed
               /\ lastCall' = Call(TRUE)
               /\ UNCHANGED <<routeCoords, routeSnapped, routeVertexTypes, routeTrailRefs,
                              routeSegments, routeDayhikeSegments, drawingSource>>
          ELSE PushVertex(result, Append(routeCoords, result.coordinates),
                          Append(routeVertexTypes, currentPointType),
                          Append(routeTrailRefs, TrailRefOf(result)),
                          Len(routeCoords) - 1, fault)

\* handleMouseMoveForRoute(e), registered on the map while drawing
handleMouseMoveForRoute(coord, shift, fault) ==
    /\ mouseMoveHandler
    /\ isDrawingRoute
    /\ \E result \in {IF shift THEN Unsnapped(coord) ELSE Snap(coord, fault)} :
          IF result.threw
          THEN \* snapToTrail threw: the preview and the line stay as they were
               UNCHANGED <<snapPreview, drawingSource, routeSegments>>
          ELSE /\ snapPreview' = [isNull |-> FALSE, coordinates |-> result.coordinates,
                                  snapped |-> result.snapped]
               /\ \E drawn \in {updateRouteDrawing(routeSegments, routeCoords,
                                       routeVertexTypes, currentPointType,
                                       <<result.coordinates>>)} :
                     /\ drawingSource' = drawn.source
                     /\ routeSegments' = drawn.segments
    /\ UNCHANGED <<pendingFeatureType, isDrawingRoute, routeCoords, routeSnapped,
                   routeVertexTypes, routeTrailRefs, routeDayhikeSegments,
                   currentPointType, mouseMoveHandler, keyHandler, features, clicks,
                   lastCall>>

\* handleRouteKeyDown(e) with e.key = key on a target that is no form input
handleRouteKeyDown(key) ==
    /\ keyHandler
    /\ isDrawingRoute
    /\ currentPointType' = POINT_TYPES[key]
    /\ UNCHANGED <<pendingFeatureType, isDrawingRoute, routeCoords, routeSnapped,
                   routeVertexTypes, routeTrailRefs, routeSegments, routeDayhikeSegments,
                   mouseMoveHandler, keyHandler, snapPreview, drawingSource, features,
                   clicks, lastCall>>

----------------------------------------------------------------------------
(* Finishing a route: the features handed to TripManager *)

\* TripManager.addFeature(geometry, properties) on the feature list fs
addFeature(fs, geometry, properties) ==
    Append(fs, [type |-> "Feature", geometry |-> geometry, properties |-> properties])

RouteFeatureGeometry(segments, coords, types) ==
    LET mainDisplayCoords == buildMainRouteDisplayCoords(segments, coords, types).coords
    IN [type |-> "LineString",
        coordinates |-> IF Len(mainDisplayCoords) >= 2 THEN mainDisplayCoords ELSE coords]

RouteFeatureProperties ==
    [type |-> "route",
     vertex_types |-> routeVertexTypes,
     vertex_snapped |-> routeSnapped,
     vertex_coords |-> routeCoords,
     main_route_distance_mi |-> computeMainRouteDistance(routeSegments),
     dayhike_distance_mi |-> computeDayhikeDistance(routeDayhikeSegments)]

\* step 2 of finishRouteDrawing: one LineString per spur with >= 2 coords
RECURSIVE AddSpurs(_, _, _, _)
AddSpurs(fs, spurs, k, routeIdx) ==
    IF k > Len(spurs) THEN fs
    ELSE AddSpurs(IF Len(spurs[k].coords) >= 2
                  THEN addFeature(fs, [type |-> "LineString", coordinates |-> spurs[k].coords],
                                  [type |-> "dayhike_spur", route_index |-> routeIdx])
                  ELSE fs,
                  spurs, k + 1, routeIdx)

\* step 3 of finishRouteDrawing skipping the dayhike vertices as well
RECURSIVE AddPoints_noDayhike(_, _, _, _, _, _, _)
AddPoints_noDayhike(fs, coords, types, i, dateIndex, routeIdx, tripDates) ==
    IF i >= Len(coords) THEN fs
    ELSE LET vtype == types[i + 1]
             pointDate == IF dateIndex < Len(tripDates) THEN tripDates[dateIndex + 1] ELSE NoDate
         IN IF vtype \in {"route", "dayhike"}
            THEN AddPoints_noDayhike(fs, coords, types, i + 1, dateIndex, routeIdx, tripDates)
            ELSE AddPoints_noDayhike(
                     addFeature(fs, [type |-> "Point", coordinates |-> coords[i + 1]],
                                [type |-> vtype, point_type |-> vtype,
                                 route_index |-> routeIdx, route_vertex_index |-> i,
                                 date |-> pointDate]),
                     coords, types, i + 1,
                     IF vtype \in {"camp", "rest"} THEN dateIndex + 1 ELSE dateIndex,
                     routeIdx, tripDates)

\* step 3 of finishRouteDrawing: one Point per vertex that is not "route";
\* i is the 0-based vertex index, dateIndex the loop's counter
RECURSIVE AddPoints(_, _, _, _, _, _, _)
AddPoints(fs, coords, types, i, dateIndex, routeIdx, tripDates) ==
    IF i >= Len(coords) THEN fs
    ELSE LET vtype == types[i + 1]
             pointDate == IF dateIndex < Len(tripDates) THEN tripDates[dateIndex + 1] ELSE NoDate
         IN IF vtype = "route"
            THEN AddPoints(fs, coords, types, i + 1, dateIndex, routeIdx, tripDates)
            ELSE AddPoints(addFeature(fs, [type |-> "Point", coordinates |-> coords[i + 1]],
                                      [type |-> vtype, point_type |-> vtype,
                                       route_index |-> routeIdx, route_vertex_index |-> i,
                                       date |-> pointDate]),
                           coords, types, i + 1,
                           IF vtype \in {"camp", "rest"} THEN dateIndex + 1 ELSE dateIndex,
                           routeIdx, tripDates)

\* finishRouteDrawing cancelling below 3 vertices (routeCoords.length < 3)
finishRouteDrawing_three ==
    /\ resetRouteDrawing
    /\ pendingFeatureType' = "null"
    /\ UNCHANGED clicks
    /\ IF Len(routeCoords) < 3
       THEN UNCHANGED features
       ELSE LET withRoute == addFeature(features,
                                 RouteFeatureGeometry(routeSegments, routeCoords, routeVertexTypes),
                                 RouteFeatureProperties)
                routeIdx == Len(withRoute) - 1
                withSpurs == AddSpurs(withRoute, routeDayhikeSegments, 1, routeIdx)
            IN features' = AddPoints(withSpurs, routeCoords, routeVertexTypes, 0, 0, routeIdx, TripDates)

finishRouteDrawing ==
    /\ resetRouteDrawing
    /\ pendingFeatureType' = "null"
    /\ UNCHANGED clicks
    /\ IF Len(routeCoords) < 2
       THEN \* not enough points: cancel instead
            UNCHANGED features
       ELSE LET withRoute == addFeature(features,
                                 RouteFeatureGeometry(routeSegments, routeCoords, routeVertexTypes),
                                 RouteFeatureProperties)
                routeIdx == Len(withRoute) - 1
                withSpurs == AddSpurs(withRoute, routeDayhikeSegments, 1, routeIdx)
            IN features' = AddPoints(withSpurs, routeCoords, routeVertexTypes, 0, 0, routeIdx, TripDates)

\* handleMapDblClickForRoute(e)
handleMapDblClickForRoute ==
    /\ isDrawingRoute
    /\ finishRouteDrawing

----------------------------------------------------------------------------
(* Events and specifications *)

\* cursor position: near the Ridge trail, so that the preview is snapped
\* unless the bypass key is held
MoveCoords == {<<55, 3>>}
FaultCoords == {<<55, 3>>, <<140, 0>>, <<50, 80>>}

Start == startRouteDrawing /\ UNCHANGED <<probe, draw>>
Click == \E coord \in SessionCoords, shift \in BOOLEAN :
            /\ clicks < MaxClicks
            /\ handleMapClickForRoute(coord, shift, "none")
            /\ UNCHANGED <<probe, draw>>
MouseMove == \E coord \in MoveCoords, shift \in BOOLEAN :
                handleMouseMoveForRoute(coord, shift, "none") /\ UNCHANGED <<probe, draw>>
KeyDown == \E key \in 1..4 : handleRouteKeyDown(key) /\ UNCHANGED <<probe, draw>>
DblClick == handleMapDblClickForRoute /\ UNCHANGED <<probe, draw>>
Cancel == cancelDrawing /\ UNCHANGED <<probe, draw>>

Next == Start \/ Click \/ MouseMove \/ KeyDown \/ DblClick \/ Cancel

Spec == Init /\ [][Next]_vars

\* Two clicks anywhere among the trails, placed as route or dayhike points
ClickGeo == \E coord \in GeoCoords, shift \in BOOLEAN :
               /\ clicks < MaxGeoClicks
               /\ handleMapClickForRoute(coord, shift, "none")
               /\ UNCHANGED <<probe, draw>>
KeyDownGeo == \E key \in {1, 3} : handleRouteKeyDown(key) /\ UNCHANGED <<probe, draw>>

NextGeo == Start \/ ClickGeo \/ KeyDownGeo

SpecGeo == Init /\ [][NextGeo]_vars

\* Clicks during which one collaborator call throws
ClickFault == \E coord \in FaultCoords, shift \in BOOLEAN, fault \in Faults :
                 /\ clicks < MaxFaultClicks
                 /\ handleMapClickForRoute(coord, shift, fault)
                 /\ UNCHANGED <<probe, draw>>

NextFault == Start \/ ClickFault \/ KeyDownGeo

SpecFault == Init /\ [][NextFault]_vars

\* Sessions drawn on Ridge and on Creek and finished, in a trip that holds
\* no feature or one feature when the script loads
FinishCoords == {<<55, 3>>, <<50, 80>>}
StoredFeatures ==
    {<<>>, <<[type |-> "Feature",
              geometry |-> [type |-> "Point", coordinates |-> <<0, 0>>],
              properties |-> [type |-> "water"]]>>}

InitFinish ==
    LoadedSession /\ features \in StoredFeatures /\ probe = NoProbe /\ draw = NoDraw

ClickFinish == \E coord \in FinishCoords :
                  /\ clicks < MaxFinishClicks
                  /\ handleMapClickForRoute(coord, FALSE, "none")
                  /\ UNCHANGED <<probe, draw>>

NextFinish == Start \/ ClickFinish \/ KeyDown \/ DblClick

SpecFinish == InitFinish /\ [][NextFinish]_vars

\* Clicks and pointer moves, with and without shift, on Ridge and on Creek,
\* during which map.project throws in snapToTrail or in tryConnectTrails
BypassCoords == {<<55, 3>>, <<50, 80>>}
BypassFaults == {"none", "snap.project", "connect.project"}

ClickBypass == \E coord \in BypassCoords, shift \in BOOLEAN, fault \in BypassFaults :
                  /\ clicks < MaxBypassClicks
                  /\ handleMapClickForRoute(coord, shift, fault)
                  /\ UNCHANGED <<probe, draw>>
MouseMoveBypass == \E coord \in MoveCoords, shift \in BOOLEAN, fault \in BypassFaults :
                      handleMouseMoveForRoute(coord, shift, fault) /\ UNCHANGED <<probe, draw>>

NextBypass == Start \/ ClickBypass \/ KeyDownGeo \/ MouseMoveBypass

SpecBypass == Init /\ [][NextBypass]_vars

----------------------------------------------------------------------------
(* The functions of the snapping pipeline applied on their own: the initial *)
(* state holds the arguments, the one step applies the function            *)

Arguments(fn, args) == [fn |-> fn, args |-> args, applied |-> FALSE, out |-> <<>>]
Applied(out) == [probe EXCEPT !.applied = TRUE, !.out = out]

SessionUnchanged ==
    UNCHANGED <<pendingFeatureType, isDrawingRoute, routeCoords, routeSnapped,
                routeVertexTypes, routeTrailRefs, routeSegments, routeDayhikeSegments,
                currentPointType, mouseMoveHandler, keyHandler, snapPreview,
                drawingSource, features, lastCall, clicks, draw>>

\* extractTrailSlice(line, A, idxA, B, idxB) and the call the other way
\* round, on the first vertices of Ridge and on Creek
SliceLines == {SubSeq(Ridge, 1, n) : n \in 2..MaxSliceLen} \cup {World[4].coordinates}
SliceCoords == {<<5, 0>>, <<20, 0>>, <<50, 30>>}

SliceArguments ==
    UNION {{<<line, a, idxA, b, idxB>> :
               a \in SliceCoords, b \in SliceCoords,
               idxA \in 0..(Len(line) - 1), idxB \in 0..(Len(line) - 1)} :
           line \in SliceLines}

InitSlice == Loaded /\ probe \in {Arguments("extractTrailSlice", args) : args \in SliceArguments}

ApplySlice ==
    /\ probe.fn = "extractTrailSlice" /\ ~probe.applied
    /\ probe' = Applied(
           [there |-> extractTrailSlice(probe.args[1], probe.args[2], probe.args[3],
                                        probe.args[4], probe.args[5]),
            back |-> extractTrailSlice(probe.args[1], probe.args[4], probe.args[5],
                                       probe.args[2], probe.args[3])])
    /\ SessionUnchanged

NextSlice == ApplySlice

SpecSlice == InitSlice /\ [][NextSlice]_vars

\* trailsMatch on every pair of references made of these parts: two loops
\* that touch at both ends, a loop with another end, a straight line between
\* the same ends, no coordinates; no id, id 0, two ids; no name, two names
MatchLines == {<<<<0, 0>>, <<0, 10>>, <<20, 10>>, <<20, 0>>>>,
               <<<<0, 0>>, <<0, -10>>, <<20, -10>>, <<20, 0>>>>,
               <<<<0, 0>>, <<0, 10>>, <<20, 10>>, <<30, 10>>>>,
               <<<<0, 0>>, <<10, 0>>, <<20, 0>>>>,
               <<>>}
MatchIds == {NullId, 0, 11, 12}
MatchNames == {"", "Ridge", "Creek"}

MatchRefs ==
    {NullRef} \cup
    {[isNull |-> FALSE, trailCoords |-> line, trailId |-> id, trailName |-> name,
      indexOnLine |-> 0] : line \in MatchLines, id \in MatchIds, name \in MatchNames}

InitMatch ==
    Loaded /\ probe \in {Arguments("trailsMatch", <<refA, refB>>) :
                             refA \in MatchRefs, refB \in MatchRefs}

ApplyMatch ==
    /\ probe.fn = "trailsMatch" /\ ~probe.applied
    /\ probe' = Applied(trailsMatch(probe.args[1], probe.args[2]))
    /\ SessionUnchanged

NextMatch == ApplyMatch

SpecMatch == InitMatch /\ [][NextMatch]_vars

\* mergeTrailFragments on every pair of these fragments: the empty array and
\* the east-west polylines of 2 to MaxMergeLen vertices, 10 m apart, that
\* start at one of five longitudes and run east or west
Fragment(lng, n, dir) == [k \in 1..n |-> <<lng + dir * 10 * (k - 1), 0>>]

MergeFragments ==
    {<<>>} \cup {Fragment(lng, n, dir) : lng \in {0, 20, 30, 45, 70}, n \in 2..MaxMergeLen,
                                        dir \in {1, -1}}

InitMerge ==
    Loaded /\ probe \in {Arguments("mergeTrailFragments", <<coordsA, coordsB>>) :
                             coordsA \in MergeFragments, coordsB \in MergeFragments}

ApplyMerge ==
    /\ probe.fn = "mergeTrailFragments" /\ ~probe.applied
    /\ probe' = Applied(mergeTrailFragments(probe.args[1], probe.args[2], "none"))
    /\ SessionUnchanged

NextMerge == ApplyMerge

SpecMerge == InitMerge /\ [][NextMerge]_vars

\* snapToTrail on a grid around the junction of Ridge and Creek, beside and
\* beyond the end of Ridge, and around the features that are no candidates
SnapCoords ==
    {<<x, y>> : x \in {45, 50, 55, 80, 112}, y \in 0..MaxSnapLat}
        \cup {<<300, 300>>, <<300, 296>>, <<312, 300>>, <<400, 400>>}

InitSnap == Loaded /\ probe \in {Arguments("snapToTrail", <<coord>>) : coord \in SnapCoords}

ApplySnap ==
    /\ probe.fn = "snapToTrail" /\ ~probe.applied
    /\ probe' = Applied(snapToTrail(probe.args[1], "none"))
    /\ SessionUnchanged

NextSnap == ApplySnap

SpecSnap == InitSnap /\ [][NextSnap]_vars

\* snapToTrail applied several times to one coordinate while a session is
\* started and drawn in between; each run is recorded with the number of
\* vertices the session held
RunCoords == {<<55, 3>>, <<50, 12>>, <<45, 8>>, <<300, 300>>}

InitRuns == Loaded /\ probe \in {Arguments("snapToTrail", <<coord>>) : coord \in RunCoords}

ApplyRun ==
    /\ probe.fn = "snapToTrail" /\ Len(probe.out) < MaxSnapRuns
    /\ probe' = Applied(Append(probe.out,
                    [result |-> snapToTrail(probe.args[1], "none"),
                     vertices |-> Len(routeCoords)]))
    /\ SessionUnchanged

ClickRun == \E coord \in SessionCoords, shift \in BOOLEAN :
               /\ clicks < MaxRunClicks
               /\ handleMapClickForRoute(coord, shift, "none")
               /\ UNCHANGED <<probe, draw>>

NextRuns == ApplyRun \/ Start \/ ClickRun \/ KeyDownGeo

SpecRuns == InitRuns /\ [][NextRuns]_vars

\* getTrailSegmentBetween on every pair of vertices a click can store at
\* these positions: on Ridge before, at and after its junction with Creek,
\* on Creek, on the fragment that continues Ridge at exactly the merge
\* tolerance, on the fragment named Ridge 40 m beyond it, on the two Spur
\* fragments whose ends are 21 m apart, away from every trail, and on Gully
\* and on Tarn, which only Bench, outside the corridor between them, joins
SegmentCoords == {<<15, 2>>, <<55, 3>>, <<95, 0>>, <<50, 12>>, <<50, 80>>, <<130, 2>>,
                  <<220, 5>>, <<300, 300>>, <<70, 1000>>, <<110, 1002>>, <<150, 1000>>,
                  <<40, 2002>>, <<302, 2005>>}

SegmentVertices == {VertexOf(snapToTrail(c, "none")) : c \in SegmentCoords}

\* the collaborator calls getTrailSegmentBetween makes, directly or not
SegmentFaults == {"none", "merge.distance", "related.lineSlice", "connect.project",
                  "connect.nearestPointOnLine", "connect.distance"}

InitSegment ==
    Loaded /\ probe \in {Arguments("getTrailSegmentBetween", <<prev, curr, fault>>) :
                             prev \in SegmentVertices, curr \in SegmentVertices,
                             fault \in SegmentFaults}

\* the classification, the merge, the merge-and-slice, the corridor
\* connection and the segment for one pair of vertices
SegmentSteps(prev, curr, fault) ==
    [match |-> trailsMatch(prev.ref, curr.ref),
     merged |-> IF prev.ref.isNull \/ curr.ref.isNull THEN NoMerge
                ELSE mergeTrailFragments(prev.ref.trailCoords, curr.ref.trailCoords, fault),
     related |-> IF prev.ref.isNull \/ curr.ref.isNull THEN NoConnection
                 ELSE RelatedSlice(prev.ref, curr.ref, prev.coord, curr.coord, fault),
     connect |-> tryConnectTrails(prev.ref, curr.ref, prev.coord, curr.coord, fault),
     segment |-> getTrailSegmentBetween(prev.ref, curr.ref, prev.coord, curr.coord, fault)]

ApplySegment ==
    /\ probe.fn = "getTrailSegmentBetween" /\ ~probe.applied
    /\ probe' = Applied(SegmentSteps(probe.args[1], probe.args[2], probe.args[3]))
    /\ SessionUnchanged

NextSegment == ApplySegment

SpecSegment == InitSegment /\ [][NextSegment]_vars

----------------------------------------------------------------------------
(* Properties *)

MainRouteVertexCount ==
    Cardinality({i \in 1..Len(routeVertexTypes) : routeVertexTypes[i] # "dayhike"})

\* 0-based indices of the dayhike vertices that were placed as second or
\* later vertex, in order: the vertices a spur was recorded for
RECURSIVE DayhikeIndices(_)
DayhikeIndices(i) ==
    IF i >= Len(routeVertexTypes) THEN <<>>
    ELSE (IF routeVertexTypes[i + 1] = "dayhike" THEN <<i>> ELSE <<>>) \o DayhikeIndices(i + 1)

AllSessionArraysEmpty ==
    /\ routeCoords = <<>> /\ routeSnapped = <<>> /\ routeVertexTypes = <<>>
    /\ routeTrailRefs = <<>> /\ routeSegments = <<>> /\ routeDayhikeSegments = <<>>

RouteFeatureCount(fs) ==
    Cardinality({k \in 1..Len(fs) : fs[k].properties.type = "route"})

\* C1: once at least 2 main-route (non-dayhike) vertices exist, the number
\* of committed segments is the number of main-route vertices minus 1, also
\* when the first vertex placed is a dayhike.
C1_SegmentCount ==
    MainRouteVertexCount >= 2 => Len(routeSegments) = MainRouteVertexCount - 1

\* C2: every recorded spur's fromVertexIndex is the index of a vertex that
\* is not a dayhike, and it is the nearest such vertex preceding the spur's
\* dayhike vertex.
C2_SpurFromMainVertex ==
    LET dayhikes == DayhikeIndices(1)
    IN /\ Len(routeDayhikeSegments) = Len(dayhikes)
       /\ \A k \in 1..Len(routeDayhikeSegments) :
             LET from == routeDayhikeSegments[k].fromVertexIndex
             IN /\ from < dayhikes[k]
                /\ routeVertexTypes[from + 1] # "dayhike"
                /\ \A j \in (from + 1)..(dayhikes[k] - 1) : routeVertexTypes[j + 1] = "dayhike"

\* C3: whatever strategy getTrailSegmentBetween takes, the segment it
\* returns starts exactly at prevCoord and ends exactly at currCoord, the
\* stored coordinates of the two vertices it connects.
C3_EndpointsPinned ==
    (lastCall.segCalled /\ ~lastCall.threw) =>
        /\ Len(lastCall.segment.coords) >= 2
        /\ lastCall.segment.coords[1] = routeCoords[lastCall.fromIdx + 1]
        /\ Last(lastCall.segment.coords) = Last(routeCoords)

\* a related-fragment merge whose slice runs against the direction of the
\* merged line, so that both endpoints were overwritten
C3_Witness ==
    /\ lastCall.segCalled
    /\ lastCall.segment.strategy = "merge"
    /\ lastCall.segment.isTrailSnapped
    /\ Len(lastCall.segment.coords) > 2

\* C4: when a geometry collaborator call throws during a click, the
\* exception does not leave handleMapClickForRoute, and the new vertex is
\* committed together with a connecting segment or spur.
C4_NoEscape ==
    /\ ~lastCall.threw
    /\ Len(routeCoords) >= 2 =>
          Len(routeSegments) + Len(routeDayhikeSegments) = Len(routeCoords) - 1

\* C5: the four per-vertex arrays have equal length in every reachable
\* state.
C5_ParallelArrays ==
    /\ Len(routeSnapped) = Len(routeCoords)
    /\ Len(routeVertexTypes) = Len(routeCoords)
    /\ Len(routeTrailRefs) = Len(routeCoords)

C5_Witness ==
    /\ isDrawingRoute
    /\ Len(routeCoords) >= 2
    /\ \E i, j \in 1..Len(routeTrailRefs) : routeTrailRefs[i].isNull /\ ~routeTrailRefs[j].isNull

\* C6: a pointer move while drawing leaves the committed session state as
\* it was: the four vertex arrays, the segments with their coordinate
\* lists, the spurs, the active point type and the drawing flag.
C6_MoveKeepsCommitted ==
    [][MouseMove => UNCHANGED <<routeCoords, routeSnapped, routeVertexTypes, routeTrailRefs,
                               routeSegments, routeDayhikeSegments, currentPointType,
                               isDrawingRoute>>]_vars

\* the cursor extended the drawn main line beyond a committed segment
C6_Witness ==
    /\ isDrawingRoute
    /\ ~snapPreview.isNull
    /\ Len(routeSegments) >= 1
    /\ Len(drawingSource.main) =
           Len(buildMainRouteDisplayCoords(routeSegments, routeCoords, routeVertexTypes).coords) + 1
    /\ Last(drawingSource.main) = snapPreview.coordinates

\* C7: a finish with fewer than 2 committed vertices adds no feature, a
\* finish with 2 or more adds exactly one route feature, and both end Idle
\* with all session arrays empty.
C7_Finish ==
    [][handleMapDblClickForRoute =>
          /\ ~isDrawingRoute'
          /\ AllSessionArraysEmpty'
          /\ IF Len(routeCoords) < 2
             THEN features' = features
             ELSE RouteFeatureCount(features') = RouteFeatureCount(features) + 1]_vars

C7_Witness ==
    /\ ~isDrawingRoute
    /\ AllSessionArraysEmpty
    /\ RouteFeatureCount(features) = 1
    /\ Len(features[1].properties.vertex_coords) = 2

\* C8: cancelDrawing in a Drawing state leaves isDrawingRoute false, all
\* six session arrays empty, currentPointType "route", pendingFeatureType
\* null, and adds no feature to the trip store.
C8_Cancel ==
    [][(isDrawingRoute /\ cancelDrawing) =>
          /\ ~isDrawingRoute'
          /\ AllSessionArraysEmpty'
          /\ currentPointType' = "route"
          /\ pendingFeatureType' = "null"
          /\ features' = features]_vars

\* Idle after clicks were made, with nothing in the trip store
C8_Witness ==
    /\ ~isDrawingRoute
    /\ pendingFeatureType = "null"
    /\ clicks >= 2
    /\ features = <<>>

\* C9: startRouteDrawing while Drawing discards the prior session: all
\* arrays empty, currentPointType "route", Drawing, nothing added to the
\* trip store.
C9_Restart ==
    [][(isDrawingRoute /\ startRouteDrawing) =>
          /\ isDrawingRoute'
          /\ AllSessionArraysEmpty'
          /\ currentPointType' = "route"
          /\ features' = features]_vars

\* a fresh Drawing session after clicks of an earlier one
C9_Witness ==
    /\ isDrawingRoute
    /\ clicks >= 2
    /\ AllSessionArraysEmpty
    /\ features = <<>>

\* the two trail references of the session's last getTrailSegmentBetween call
PrevRef == routeTrailRefs[lastCall.fromIdx + 1]
CurrRef == Last(routeTrailRefs)

SameTrailForward ==
    /\ lastCall.segCalled
    /\ lastCall.segment.strategy = "same"
    /\ PrevRef.indexOnLine < CurrRef.indexOnLine

\* C10 as stated: for two vertices on the same polyline at indices i < j
\* the segment is [startCoord, trail[i+1], ..., trail[j-1], endCoord],
\* trail-snapped; 5 coordinates for indices 5 and 9.
C10_Original ==
    SameTrailForward =>
        LET i == PrevRef.indexOnLine
            j == CurrRef.indexOnLine
        IN /\ lastCall.segment.isTrailSnapped
           /\ lastCall.segment.coords =
                 <<routeCoords[lastCall.fromIdx + 1]>>
                 \o [k \in 1..(j - i - 1) |-> PrevRef.trailCoords[i + k + 1]]
                 \o <<Last(routeCoords)>>
           /\ (i = 5 /\ j = 9) => Len(lastCall.segment.coords) = 5

\* C10 amended: for two vertices on the same polyline at indices i < j the
\* segment is [startCoord, trail[i+1], ..., trail[j], endCoord],
\* trail-snapped; 6 coordinates for indices 5 and 9.
C10_Amended ==
    SameTrailForward =>
        LET i == PrevRef.indexOnLine
            j == CurrRef.indexOnLine
        IN /\ lastCall.segment.isTrailSnapped
           /\ lastCall.segment.coords =
                 <<routeCoords[lastCall.fromIdx + 1]>>
                 \o [k \in 1..(j - i) |-> PrevRef.trailCoords[i + k + 1]]
                 \o <<Last(routeCoords)>>
           /\ (i = 5 /\ j = 9) => Len(lastCall.segment.coords) = 6

C10_Witness ==
    /\ SameTrailForward
    /\ PrevRef.indexOnLine = 5
    /\ CurrRef.indexOnLine = 9
    /\ Len(lastCall.segment.coords) = 6

\* C11: for every polyline, every pair of coordinates A, B and every pair
\* of valid indices (idxA < idxB, idxA = idxB, idxA > idxB),
\* extractTrailSlice(line, A, idxA, B, idxB) reversed equals
\* extractTrailSlice(line, B, idxB, A, idxA).
C11_Symmetry ==
    (probe.fn = "extractTrailSlice" /\ probe.applied) =>
        Reverse(probe.out.there) = probe.out.back

\* a slice walked backward over interior vertices, between two different
\* coordinates
C11_Witness ==
    /\ probe.fn = "extractTrailSlice" /\ probe.applied
    /\ probe.args[3] > probe.args[5] + 1
    /\ probe.args[2] # probe.args[4]
    /\ Len(probe.out.there) = probe.args[3] - probe.args[5] + 2

\* C12: in the main-route display coordinate sequence produced by
\* buildMainRouteDisplayCoords after any sequence of clicks, no two adjacent
\* coordinates are equal.
C12_NoAdjacentDuplicates ==
    \A cs \in {buildMainRouteDisplayCoords(routeSegments, routeCoords, routeVertexTypes).coords} :
        \A k \in 1..(Len(cs) - 1) : cs[k] # cs[k + 1]

\* the arguments and results of an application of getTrailSegmentBetween
\* during which no collaborator call throws
SegmentApplied ==
    probe.fn = "getTrailSegmentBetween" /\ probe.applied /\ probe.args[3] = "none"
Prev == probe.args[1]
Curr == probe.args[2]

\* the four endpoint gaps of mergeTrailFragments, squared
EndpointGaps2 ==
    {DistMeters2(a, b) : a \in {Prev.ref.trailCoords[1], Last(Prev.ref.trailCoords)},
                         b \in {Curr.ref.trailCoords[1], Last(Curr.ref.trailCoords)}}

IsStraightLine(segment) ==
    segment.coords = <<Prev.coord, Curr.coord>> /\ ~segment.isTrailSnapped

C14_JunctionOnce ==
    (SegmentApplied /\ probe.out.connect.strategy = "twohop") =>
        \A path \in {probe.out.connect.coords} :
            Cardinality({k \in 1..Len(path) : path[k] = probe.out.connect.junction}) = 1

\* the argument and the result of an application of snapToTrail
SnapApplied == probe.fn = "snapToTrail" /\ probe.applied
Query == probe.args[1]

\* the features of the trails layer that are candidates of the snap loop
Candidates == {k \in 1..Len(World) : IsLineCandidate(World[k])}

\* C15: if snapped is true, the pixel distance between the projected query
\* point and the projected returned coordinate is at most SNAP_PIXEL_RADIUS;
\* if snapped is false, the returned coordinate is the query coordinate and
\* no LineString candidate with at least 2 coordinates has its nearest
\* point within SNAP_PIXEL_RADIUS pixels.
C15_RadiusBound ==
    SnapApplied =>
        IF probe.out.snapped
        THEN PixelDist2(project(Query), project(probe.out.coordinates))
                 <= SNAP_PIXEL_RADIUS * SNAP_PIXEL_RADIUS
        ELSE /\ probe.out.coordinates = Query
             /\ \A k \in Candidates :
                    SnapPixelDist2(World[k], Query) > SNAP_PIXEL_RADIUS * SNAP_PIXEL_RADIUS

\* a query rejected although a candidate was returned by the box query:
\* the end of Ridge lies inside the box, 24 pixels off on both axes
C15_Witness ==
    /\ SnapApplied
    /\ ~probe.out.snapped
    /\ \E k \in Candidates :
           SnapPixelDist2(World[k], Query) < 2 * SNAP_PIXEL_RADIUS * SNAP_PIXEL_RADIUS

\* C16: snapToTrail selects, among the candidate LineStrings with at least
\* 2 coordinates, the one whose nearest point has minimum pixel distance to
\* the query, the first in query order among equals; the trail reference
\* and the index recorded for the vertex belong to that candidate.
C16_FirstNearest ==
    (SnapApplied /\ probe.out.snapped) =>
        \E k \in Candidates :
            /\ \A j \in Candidates : SnapPixelDist2(World[k], Query) <= SnapPixelDist2(World[j], Query)
            /\ \A j \in Candidates :
                   j < k => SnapPixelDist2(World[j], Query) > SnapPixelDist2(World[k], Query)
            /\ probe.out.trailFeature = World[k]
            /\ \A nearest \in {nearestPointOnLine(World[k].coordinates, Query)} :
                   /\ probe.out.coordinates = nearest.coordinates
                   /\ TrailRefOf(probe.out) =
                          [isNull |-> FALSE, trailCoords |-> World[k].coordinates,
                           trailId |-> World[k].id, trailName |-> World[k].name,
                           indexOnLine |-> nearest.index]

\* a query as near to Creek as to Ridge was snapped to Ridge, the first of
\* the two in query order
C16_Witness ==
    /\ SnapApplied /\ probe.out.snapped
    /\ SnapPixelDist2(World[1], Query) = SnapPixelDist2(World[4], Query)
    /\ probe.out.trailFeature.key = 1

\* the arguments and the result of an application of trailsMatch
MatchApplied == probe.fn = "trailsMatch" /\ probe.applied
RefA == probe.args[1]
RefB == probe.args[2]

SameEnds(ac, bc) ==
    /\ Len(ac) > 0 /\ Len(bc) > 0
    /\ Len(ac) = Len(bc)
    /\ ac[1] = bc[1]
    /\ Last(ac) = Last(bc)

\* C17: two non-null references are `same` exactly when their coordinate
\* arrays are non-empty, of equal length, with equal first and equal last
\* coordinates, whatever the interior coordinates, the ids and the names.
C17_SameByEnds ==
    (MatchApplied /\ ~RefA.isNull /\ ~RefB.isNull) =>
        (probe.out = "same" <=> SameEnds(RefA.trailCoords, RefB.trailCoords))

\* two different polylines, with different ids and names, classified `same`
C17_Witness ==
    /\ MatchApplied /\ ~RefA.isNull /\ ~RefB.isNull
    /\ probe.out = "same"
    /\ RefA.trailCoords # RefB.trailCoords
    /\ RefA.trailId = 11 /\ RefB.trailId = 12
    /\ RefA.trailName = "Ridge" /\ RefB.trailName = "Creek"

\* C18: two non-null references that are not `same` are `related` exactly
\* when both have a trail id and the ids are equal, or both have a trail
\* name and the names are equal; in every other case, a null reference
\* included, the result is the unrelated value.
C18_RelatedByIdOrName ==
    MatchApplied =>
        IF RefA.isNull \/ RefB.isNull THEN probe.out = "false"
        ELSE probe.out # "same" =>
                 (probe.out = "related" <=>
                     \/ RefA.trailId # NullId /\ RefB.trailId # NullId
                            /\ RefA.trailId = RefB.trailId
                     \/ RefA.trailName # "" /\ RefB.trailName # ""
                            /\ RefA.trailName = RefB.trailName)

\* an application of getTrailSegmentBetween, collaborator calls that throw
\* included
SegmentCalled == probe.fn = "getTrailSegmentBetween" /\ probe.applied

\* the segment is the path a trail strategy found, flagged trail-snapped
IsPathOf(segment, found) ==
    found.found /\ segment.coords = found.coords /\ segment.isTrailSnapped

\* C19: getTrailSegmentBetween returns the straight line when a reference
\* is null; for `same` only the index slice is used; for `related` the
\* merge-and-slice comes first and the corridor connector second; for
\* unrelated the corridor connector alone; whenever every attempted strategy
\* fails the result is exactly [prevCoord, currCoord], not trail-snapped,
\* and every segment a trail strategy produced is trail-snapped.
C19_StrategyOrder ==
    SegmentCalled =>
        \A segment \in {probe.out.segment} :
            /\ ~segment.threw
            /\ IF Prev.ref.isNull \/ Curr.ref.isNull
               THEN IsStraightLine(segment)
               ELSE IF probe.out.match = "same"
               THEN \A slice \in {extractTrailSlice(Prev.ref.trailCoords,
                                       Prev.coord, Prev.ref.indexOnLine,
                                       Curr.coord, Curr.ref.indexOnLine)} :
                        IF Len(slice) >= 2
                        THEN segment.coords = slice /\ segment.isTrailSnapped
                        ELSE IsStraightLine(segment)
               ELSE IF probe.out.match = "related" /\ probe.out.related.found
               THEN IsPathOf(segment, probe.out.related)
               ELSE IF probe.out.connect.found
               THEN IsPathOf(segment, probe.out.connect)
               ELSE IsStraightLine(segment)

\* the positions, in query order, of the corridor trails both endpoints are
\* within the padded bounding box of, and within 2 x SNAP_PIXEL_RADIUS
\* pixels of
AcceptedAt(trails, prevCoord, currCoord) ==
    {k \in 1..Len(trails) :
        /\ IsLineCandidate(trails[k])
        /\ NearBox(trails[k], prevCoord) /\ NearBox(trails[k], currCoord)
        /\ SnapPixelDist2(trails[k], prevCoord) <= 4 * SNAP_PIXEL_RADIUS * SNAP_PIXEL_RADIUS
        /\ SnapPixelDist2(trails[k], currCoord) <= 4 * SNAP_PIXEL_RADIUS * SNAP_PIXEL_RADIUS}

\* the slice of one trail between the two vertex coordinates
SliceOfTrail(trail, prevCoord, currCoord) ==
    SliceAlong(trail.coordinates, prevCoord, nearestPointOnLine(trail.coordinates, prevCoord),
               currCoord, nearestPointOnLine(trail.coordinates, currCoord))

\* C20: tryConnectTrails returns a two-hop path only if no single corridor
\* trail was accepted for bridging; a single trail is accepted only if both
\* endpoints are inside its bounding box padded by 0.005 degrees and both
\* projected nearest points are within 2 x SNAP_PIXEL_RADIUS pixels of their
\* endpoints; the first such trail in query order is the one used.
C20_BridgingFirst ==
    SegmentApplied =>
        \A trails \in {CorridorTrails(Prev.coord, Curr.coord)} :
            \A accepted \in {AcceptedAt(trails, Prev.coord, Curr.coord)} :
                /\ probe.out.connect.strategy = "twohop" => accepted = {}
                /\ probe.out.connect.strategy = "bridge" => accepted # {}
                /\ accepted # {} =>
                       /\ probe.out.connect.strategy = "bridge"
                       /\ \A first \in {k \in accepted : \A j \in accepted : k <= j} :
                              probe.out.connect.coords =
                                  SliceOfTrail(trails[first], Prev.coord, Curr.coord)

\* two corridor trails bridge the endpoints, the first was used and the
\* second would have given another path
C20_Witness ==
    /\ SegmentApplied
    /\ probe.out.connect.strategy = "bridge"
    /\ \E trails \in {CorridorTrails(Prev.coord, Curr.coord)} :
           \E accepted \in {AcceptedAt(trails, Prev.coord, Curr.coord)} :
               /\ Cardinality(accepted) >= 2
               /\ \E k \in accepted :
                      SliceOfTrail(trails[k], Prev.coord, Curr.coord) # probe.out.connect.coords

\* the trails among which a start-side trail, a distinct end-side trail
\* and a vertex of each within 20 m of the other exist
HasJunctionPair(trails, prevCoord, currCoord) ==
    \E p, c \in 1..Len(trails) :
        /\ trails[p].key # trails[c].key
        /\ IsLineCandidate(trails[p]) /\ IsLineCandidate(trails[c])
        /\ SnapPixelDist2(trails[p], prevCoord) <= 4 * SNAP_PIXEL_RADIUS * SNAP_PIXEL_RADIUS
        /\ SnapPixelDist2(trails[c], currCoord) <= 4 * SNAP_PIXEL_RADIUS * SNAP_PIXEL_RADIUS
        /\ \E a \in 1..Len(trails[p].coordinates), b \in 1..Len(trails[c].coordinates) :
               DistMeters2(trails[p].coordinates[a], trails[c].coordinates[b])
                   <= MERGE_GAP_TOLERANCE_METERS * MERGE_GAP_TOLERANCE_METERS

\* tryConnectTrails returned a stitched path, or null without an error
TwoHopOutcome(connect, pairExists) ==
    /\ ~connect.threw
    /\ IF pairExists
       THEN connect.found /\ connect.strategy = "twohop" /\ connect.isTrailSnapped
            /\ Len(connect.coords) >= 2
       ELSE ~connect.found

\* C21 as stated: when no single trail is within 2 x SNAP_PIXEL_RADIUS
\* pixels of both endpoints, tryConnectTrails returns a stitched,
\* trail-snapped path if some start-side trail and some distinct end-side
\* trail have a vertex each within 20 m of the other, and null otherwise.
C21_Original ==
    (SegmentApplied /\ AcceptedAt(World, Prev.coord, Curr.coord) = {}) =>
        TwoHopOutcome(probe.out.connect, HasJunctionPair(World, Prev.coord, Curr.coord))

\* C21 amended: the same, the trails being those the corridor query
\* between the two endpoints returned.
C21_Amended ==
    SegmentApplied =>
        \A trails \in {CorridorTrails(Prev.coord, Curr.coord)} :
            AcceptedAt(trails, Prev.coord, Curr.coord) = {} =>
                TwoHopOutcome(probe.out.connect,
                              HasJunctionPair(trails, Prev.coord, Curr.coord))

\* a path stitched from a start-side and an end-side trail of the corridor
C21_Witness ==
    /\ SegmentApplied
    /\ probe.out.connect.strategy = "twohop"
    /\ \E trails \in {CorridorTrails(Prev.coord, Curr.coord)} :
           /\ AcceptedAt(trails, Prev.coord, Curr.coord) = {}
           /\ HasJunctionPair(trails, Prev.coord, Curr.coord)

\* the arguments of an application of mergeTrailFragments
MergeApplied == probe.fn = "mergeTrailFragments" /\ probe.applied
CoordsA == probe.args[1]
CoordsB == probe.args[2]

\* the four joins in the order of the claim: the squared gap and the
\* polyline of each
Joins(a, b) ==
    <<[gap2 |-> DistMeters2(Last(a), b[1]), line |-> a \o Rest(b)],
      [gap2 |-> DistMeters2(Last(a), Last(b)), line |-> a \o Rest(Reverse(b))],
      [gap2 |-> DistMeters2(Last(b), a[1]), line |-> b \o Rest(a)],
      [gap2 |-> DistMeters2(b[1], a[1]), line |-> Reverse(b) \o Rest(a)]>>

Qualifies(join) == join.gap2 <= MERGE_GAP_TOLERANCE_METERS * MERGE_GAP_TOLERANCE_METERS

\* C22: mergeTrailFragments returns the polyline of the first of the joins
\* A-end/B-start, A-end/B-end, B-end/A-start, B-start/A-start whose gap is at
\* most 20 m, also when a later join has a smaller gap; it returns null
\* when no join qualifies or a fragment is empty; a merged polyline has
\* |A| + |B| - 1 coordinates.
C22_FirstJoinWins ==
    MergeApplied =>
        /\ ~probe.out.threw
        /\ IF Len(CoordsA) = 0 \/ Len(CoordsB) = 0 THEN ~probe.out.ok
           ELSE \A joins \in {Joins(CoordsA, CoordsB)} :
                    IF \A k \in 1..4 : ~Qualifies(joins[k]) THEN ~probe.out.ok
                    ELSE /\ probe.out.ok
                         /\ Len(probe.out.coords) = Len(CoordsA) + Len(CoordsB) - 1
                         /\ \E k \in 1..4 :
                                /\ Qualifies(joins[k])
                                /\ \A j \in 1..(k - 1) : ~Qualifies(joins[j])
                                /\ probe.out.coords = joins[k].line

\* the first join was taken although the second has a smaller gap and
\* gives another polyline
C22_Witness ==
    /\ MergeApplied /\ Len(CoordsA) > 0 /\ Len(CoordsB) > 0
    /\ probe.out.ok
    /\ \E joins \in {Joins(CoordsA, CoordsB)} :
           /\ Qualifies(joins[1])
           /\ joins[2].gap2 < joins[1].gap2
           /\ joins[2].line # joins[1].line
           /\ probe.out.coords = joins[1].line

\* vertex from is the nearest non-dayhike vertex before vertex n
NearestMainBefore(types, from, n) ==
    /\ from < n
    /\ types[from + 1] # "dayhike"
    /\ \A j \in (from + 1)..(n - 1) : types[j + 1] = "dayhike"

\* C23: a click with the dayhike point type leaves routeSegments as it was
\* and records its connection, if any, as a spur from the nearest preceding
\* non-dayhike vertex; a click with another point type leaves
\* routeDayhikeSegments as it was and connects from the nearest preceding
\* non-dayhike vertex, skipping the dayhike vertices in between.
C23_ClickFrame ==
    [][Click =>
          IF currentPointType = "dayhike"
          THEN /\ routeSegments' = routeSegments
               /\ Len(routeDayhikeSegments') > Len(routeDayhikeSegments) =>
                      /\ routeDayhikeSegments' =
                             Append(routeDayhikeSegments, Last(routeDayhikeSegments'))
                      /\ NearestMainBefore(routeVertexTypes',
                                           Last(routeDayhikeSegments').fromVertexIndex,
                                           Len(routeCoords))
          ELSE /\ routeDayhikeSegments' = routeDayhikeSegments
               /\ Len(routeSegments') > Len(routeSegments) =>
                      /\ lastCall'.segCalled
                      /\ NearestMainBefore(routeVertexTypes', lastCall'.fromIdx,
                                           Len(routeCoords))]_vars

\* the new vertex is the exact click coordinate, unsnapped, without trail
\* reference, and what the click appended is the straight line to it
BypassVertex(coord) ==
    /\ routeCoords' = Append(routeCoords, coord)
    /\ routeSnapped' = Append(routeSnapped, FALSE)
    /\ routeTrailRefs' = Append(routeTrailRefs, NullRef)

StraightTo(connection, fromIdx) ==
    /\ connection.coords = <<routeCoords'[fromIdx + 1], Last(routeCoords')>>
    /\ lastCall'.segment.coords = connection.coords
    /\ ~lastCall'.segment.isTrailSnapped

\* the segment or the spur a click appended, if any, is a straight line
AppendedStraight ==
    /\ Len(routeSegments') > Len(routeSegments) =>
           /\ StraightTo(Last(routeSegments'), lastCall'.fromIdx)
           /\ ~Last(routeSegments').isTrailSnapped
    /\ Len(routeDayhikeSegments') > Len(routeDayhikeSegments) =>
           StraightTo(Last(routeDayhikeSegments'), lastCall'.fromIdx)

\* C24: a click or pointer move with shift held does not query the trail
\* index, so that no throwing map or turf call of the snap and connect
\* steps is reached; the vertex is stored with the exact click coordinate,
\* snapped = false and a null trail reference; every segment or spur that
\* starts or ends at such a vertex is the two-point straight line, not
\* trail-snapped.
C24_Bypass ==
    [][/\ clicks' # clicks =>
              \A coord \in BypassCoords, shift \in BOOLEAN, fault \in BypassFaults :
                  handleMapClickForRoute(coord, shift, fault) =>
                      /\ shift => BypassVertex(coord) /\ ~lastCall'.threw
                      /\ (shift \/ (lastCall'.segCalled
                                     /\ ~routeSnapped[lastCall'.fromIdx + 1])) =>
                             AppendedStraight
       /\ snapPreview' # snapPreview =>
              \A coord \in MoveCoords, fault \in BypassFaults :
                  handleMouseMoveForRoute(coord, TRUE, fault) =>
                      snapPreview' = [isNull |-> FALSE, coordinates |-> coord,
                                      snapped |-> FALSE]]_vars

\* a snapped vertex followed by a vertex placed with shift beside the
\* trail, joined by the straight line, and a preview at the cursor itself
C24_Witness ==
    /\ Len(routeCoords) = 2
    /\ routeSnapped = <<TRUE, FALSE>>
    /\ routeCoords = <<<<55, 0>>, <<55, 3>>>>
    /\ routeTrailRefs[2].isNull
    /\ Len(routeSegments) = 1
    /\ routeSegments[1].coords = <<<<55, 0>>, <<55, 3>>>>
    /\ ~routeSegments[1].isTrailSnapped
    /\ snapPreview = [isNull |-> FALSE, coordinates |-> <<55, 3>>, snapped |-> FALSE]

\* C25: in every reachable session state, for every vertex the stored
\* trail reference is non-null if and only if the vertex is snapped.
C25_RefIffSnapped ==
    /\ Len(routeTrailRefs) = Len(routeSnapped)
    /\ \A i \in 1..Len(routeSnapped) : ~routeTrailRefs[i].isNull <=> routeSnapped[i]

\* a vertex snapped to Creek with its reference, then a vertex away from
\* every trail without one
C25_Witness ==
    /\ routeSnapped = <<TRUE, FALSE>>
    /\ ~routeTrailRefs[1].isNull /\ routeTrailRefs[1].trailName = "Creek"
    /\ routeTrailRefs[2].isNull
    /\ routeCoords[2] = <<300, 300>>

\* the features a step appended to the trip
AddedFeatures == SubSeq(features', Len(features) + 1, Len(features'))

\* 0-based indices of the vertices that are not of type route
SpecialVertices == {i \in 0..(Len(routeCoords) - 1) : routeVertexTypes[i + 1] # "route"}

\* C26: a finish with at least 2 committed vertices appends to the trip one
\* route feature, then one dayhike-spur LineString per recorded spur, then
\* one Point per vertex of type camp, dayhike or rest, in vertex order; each
\* Point carries its vertex's index as route_vertex_index and the store
\* index of the route feature as route_index.
C26_FinishFeatures ==
    [][(handleMapDblClickForRoute /\ Len(routeCoords) >= 2) =>
          /\ SubSeq(features', 1, Len(features)) = features
          /\ \A added \in {AddedFeatures} :
                /\ Len(added) = 1 + Len(routeDayhikeSegments) + Cardinality(SpecialVertices)
                /\ added[1].properties.type = "route"
                /\ added[1].geometry.type = "LineString"
                /\ \A k \in 1..Len(routeDayhikeSegments) :
                       /\ added[1 + k].properties.type = "dayhike_spur"
                       /\ added[1 + k].properties.route_index = Len(features)
                       /\ added[1 + k].geometry =
                              [type |-> "LineString",
                               coordinates |-> routeDayhikeSegments[k].coords]
                /\ \A i \in SpecialVertices :
                       \A point \in {added[1 + Len(routeDayhikeSegments)
                                           + Cardinality({j \in SpecialVertices : j <= i})]} :
                           /\ point.geometry =
                                  [type |-> "Point", coordinates |-> routeCoords[i + 1]]
                           /\ point.properties.type = routeVertexTypes[i + 1]
                           /\ point.properties.type \in {"camp", "dayhike", "rest"}
                           /\ point.properties.route_vertex_index = i
                           /\ point.properties.route_index = Len(features)]_vars

\* a finished session of a camp and a dayhike vertex in a trip that held
\* one feature: the route at store index 1, its spur, its two points
C26_Witness ==
    /\ ~isDrawingRoute
    /\ Len(features) = 5
    /\ features[1].properties.type = "water"
    /\ features[2].properties.type = "route"
    /\ features[2].properties.vertex_types = <<"camp", "dayhike">>
    /\ features[3].properties.type = "dayhike_spur"
    /\ features[4].properties.type = "camp"
    /\ features[4].properties.route_vertex_index = 0
    /\ features[5].properties.type = "dayhike"
    /\ features[5].properties.route_vertex_index = 1
    /\ features[5].properties.route_index = 1

\* the sum of the lengths of a sequence of polylines
RECURSIVE TotalLength(_)
TotalLength(lines) ==
    IF lines = <<>> THEN 0
    ELSE turfLength(lines[1].coords) + TotalLength(Rest(lines))

\* C27: the dayhike distance reported at finish is the sum over the
\* recorded spurs of twice the spur's one-way length, the main-route
\* distance is the sum of the lengths of the committed segments; spurs add
\* nothing to the main-route distance and segments nothing to the dayhike
\* distance.
C27_Distances ==
    [][(handleMapDblClickForRoute /\ Len(routeCoords) >= 2) =>
          \A route \in {features'[Len(features) + 1].properties} :
              /\ route.type = "route"
              /\ route.dayhike_distance_mi = 2 * TotalLength(routeDayhikeSegments)
              /\ route.main_route_distance_mi = TotalLength(routeSegments)]_vars

\* a finished route of one segment between Ridge and Creek and one spur
\* back to Ridge
C27_Witness ==
    /\ ~isDrawingRoute
    /\ \E k \in 1..Len(features) :
           /\ features[k].properties.type = "route"
           /\ features[k].properties.vertex_types = <<"route", "route", "dayhike">>
           /\ features[k].properties.main_route_distance_mi > 0
           /\ features[k].properties.dayhike_distance_mi > 0
           /\ features[k].properties.dayhike_distance_mi
                  # features[k].properties.main_route_distance_mi

MainVertices == {i \in 0..(Len(routeCoords) - 1) : routeVertexTypes[i + 1] # "dayhike"}

\* the coordinates of the dayhike vertices no main-route vertex shares
DayhikeOnlyCoords ==
    {routeCoords[i + 1] : i \in (0..(Len(routeCoords) - 1)) \ MainVertices}
        \ {routeCoords[i + 1] : i \in MainVertices}

\* the path is the assembled main route of the session
IsMainRoutePath(path) ==
    /\ path = buildMainRouteDisplayCoords(routeSegments, routeCoords, routeVertexTypes).coords
    /\ MainVertices # {} =>
           /\ path[1] = routeCoords[(CHOOSE i \in MainVertices :
                                         \A j \in MainVertices : i <= j) + 1]
           /\ Last(path) = routeCoords[(CHOOSE i \in MainVertices :
                                           \A j \in MainVertices : i >= j) + 1]
    /\ \A k \in 1..Len(path) : path[k] \notin DayhikeOnlyCoords

\* C29: on finish with at least 2 committed vertices the LineString of the
\* route feature is the assembled main-route path: it begins at the first
\* non-dayhike vertex, ends at the last non-dayhike vertex and holds the
\* coordinate of no dayhike vertex, also when the first vertex is a dayhike
\* or when fewer than 2 main-route vertices exist.
C29_RouteGeometry ==
    [][(handleMapDblClickForRoute /\ Len(routeCoords) >= 2) =>
          /\ features'[Len(features) + 1].geometry.type = "LineString"
          /\ IsMainRoutePath(features'[Len(features) + 1].geometry.coordinates)]_vars

\* the segments joined, the first coordinate of every segment after the
\* first dropped
RECURSIVE JoinedSegments(_)
JoinedSegments(segments) ==
    IF Len(segments) = 1 THEN segments[1].coords
    ELSE JoinedSegments(SubSeq(segments, 1, Len(segments) - 1))
             \o Rest(segments[Len(segments)].coords)

----------------------------------------------------------------------------
(* One vertex per click, one connection per vertex after the first *)

\* C31: every click while drawing appends exactly one vertex, in every
\* reachable state with at least one vertex the number of segments plus the
\* number of spurs is the number of vertices minus 1, and every segment and
\* every spur has at least 2 coordinates.
C31_VertexPerClick ==
    /\ [][clicks' # clicks => Len(routeCoords') = Len(routeCoords) + 1]_vars
    /\ [](/\ Len(routeCoords) >= 1 =>
                Len(routeSegments) + Len(routeDayhikeSegments) = Len(routeCoords) - 1
          /\ \A i \in 1..Len(routeSegments) : Len(routeSegments[i].coords) >= 2
          /\ \A k \in 1..Len(routeDayhikeSegments) :
                Len(routeDayhikeSegments[k].coords) >= 2)

----------------------------------------------------------------------------
(* The events of the page as the browser delivers them: every listener     *)
(* that is registered runs in full, its early returns included; probe      *)
(* records the event delivered last                                        *)

MaxEventClicks == 2     \* click events per behaviour of SpecEvents

FormTags == {"INPUT", "TEXTAREA", "SELECT"}
EventTags == FormTags \cup {"BODY"}

\* keyMap of handleRouteKeyDown
keyMap == [k \in {"1", "2", "3", "4"} |->
              CASE k = "1" -> "route" [] k = "2" -> "camp"
                [] k = "3" -> "dayhike" [] k = "4" -> "rest"]

\* the hotkeys, a key without meaning, and Escape
EventKeys == DOMAIN keyMap \cup {"5", "Escape"}

Event(fn, args) == [fn |-> fn, args |-> args, applied |-> TRUE, out |-> <<>>]

\* setActivePointType(pointType)
setActivePointType(pointType) ==
    /\ currentPointType' = pointType
    /\ UNCHANGED <<pendingFeatureType, isDrawingRoute, routeCoords, routeSnapped,
                   routeVertexTypes, routeTrailRefs, routeSegments, routeDayhikeSegments,
                   mouseMoveHandler, keyHandler, snapPreview, drawingSource, features,
                   clicks, lastCall>>

\* a pointer-move listener that stays on the map and does not look at
\* isDrawingRoute
mapOnMouseMove_always(coord, shift) ==
    /\ snapPreview' = [isNull |-> FALSE, coordinates |-> Snap(coord, "none").coordinates,
                       snapped |-> Snap(coord, "none").snapped]
    /\ UNCHANGED <<pendingFeatureType, isDrawingRoute, routeCoords, routeSnapped,
                   routeVertexTypes, routeTrailRefs, routeSegments, routeDayhikeSegments,
                   currentPointType, mouseMoveHandler, keyHandler, drawingSource,
                   features, clicks, lastCall>>

\* map.on("click", ...)
mapOnClick(coord, shift) ==
    IF isDrawingRoute THEN handleMapClickForRoute(coord, shift, "none")
    ELSE SessionUnchanged

\* map.on("dblclick", ...)
mapOnDblClick ==
    IF isDrawingRoute THEN handleMapDblClickForRoute
    ELSE SessionUnchanged

\* a "mousemove" event of the map: _routeMouseMoveHandler runs when it is
\* registered and returns at once when no route is being drawn
mapOnMouseMove(coord, shift) ==
    IF mouseMoveHandler /\ isDrawingRoute
    THEN handleMouseMoveForRoute(coord, shift, "none")
    ELSE SessionUnchanged

\* the keydown listeners with a handleRouteKeyDown that does not look at the
\* event's target
documentOnKeyDown_anyTarget(key, tag) ==
    IF key = "Escape" THEN cancelDrawing
    ELSE IF /\ keyHandler
            /\ isDrawingRoute
            /\ key \in DOMAIN keyMap
    THEN setActivePointType(keyMap[key])
    ELSE SessionUnchanged

\* a "keydown" event of the document with e.key = key and
\* e.target.tagName = tag: the Escape listener of initTripPanel, and
\* handleRouteKeyDown when it is registered
documentOnKeyDown(key, tag) ==
    IF key = "Escape" THEN cancelDrawing
    ELSE IF /\ keyHandler
            /\ isDrawingRoute
            /\ tag \notin FormTags
            /\ key \in DOMAIN keyMap
    THEN setActivePointType(keyMap[key])
    ELSE SessionUnchanged

StartEvent == startRouteDrawing /\ UNCHANGED draw /\ probe' = Event("start", <<>>)
ClickEvent == \E coord \in SessionCoords :
                 /\ clicks < MaxEventClicks
                 /\ mapOnClick(coord, FALSE)
                 /\ UNCHANGED draw /\ probe' = Event("click", <<coord>>)
DblClickEvent == mapOnDblClick /\ UNCHANGED draw /\ probe' = Event("dblclick", <<>>)
MouseMoveEvent == \E coord \in MoveCoords :
                     mapOnMouseMove(coord, FALSE) /\ UNCHANGED draw /\ probe' = Event("mousemove", <<coord>>)
KeyDownEvent == \E key \in EventKeys, tag \in EventTags :
                   documentOnKeyDown(key, tag) /\ UNCHANGED draw /\ probe' = Event("keydown", <<key, tag>>)
\* a point-type button, shown while a route is being drawn
ButtonEvent == \E k \in DOMAIN POINT_TYPES :
                  /\ isDrawingRoute
                  /\ setActivePointType(POINT_TYPES[k])
                  /\ UNCHANGED draw /\ probe' = Event("button", <<POINT_TYPES[k]>>)
\* closing the trip panel
ClosePanelEvent == cancelDrawing /\ UNCHANGED draw /\ probe' = Event("close", <<>>)

NextEvents ==
    StartEvent \/ ClickEvent \/ DblClickEvent \/ MouseMoveEvent \/ KeyDownEvent
        \/ ButtonEvent \/ ClosePanelEvent

SpecEvents == Init /\ [][NextEvents]_vars

----------------------------------------------------------------------------
(* Events while no route is being drawn *)

\* C32: while the session is idle (isDrawingRoute false), click,
\* double-click, pointer-move and hotkey events change no session state and
\* add no feature to the trip store.
C32_IdleEvents ==
    [][(/\ ~isDrawingRoute
        /\ probe'.fn \in {"click", "dblclick", "mousemove", "keydown"})
         => UNCHANGED <<pendingFeatureType, isDrawingRoute, routeCoords, routeSnapped,
                        routeVertexTypes, routeTrailRefs, routeSegments,
                        routeDayhikeSegments, currentPointType, mouseMoveHandler,
                        keyHandler, snapPreview, drawingSource, features>>]_vars

\* a hotkey pressed after a route was finished and stored
C32_Witness ==
    /\ ~isDrawingRoute
    /\ probe.fn = "keydown"
    /\ probe.args[1] = "3"
    /\ probe.args[2] = "BODY"
    /\ Len(features) > 0

----------------------------------------------------------------------------
(* The dates of the points of a finished route: getTripDateRange and step 3 *)
(* of finishRouteDrawing applied to a trip's dates, the browser's time      *)
(* zone and the vertex types of a session                                   *)

MaxDateVertices == 3    \* vertices of a session of SpecDates

RECURSIVE TypeSeqs(_)
TypeSeqs(n) ==
    IF n = 0 THEN {<<>>}
    ELSE TypeSeqs(n - 1) \cup
         {Append(ts, POINT_TYPES[k]) : ts \in TypeSeqs(n - 1), k \in DOMAIN POINT_TYPES}

\* trips without dates, of one day, of two days, of three days
DateMetas == {[start |-> s, end |-> e] : s \in {NoDate, 2, 3}, e \in {NoDate, 2, 3, 4}}

\* hours ahead of UTC: New York, London in winter, Berlin in summer
DateZones == {-5, 0, 2}

InitDates ==
    /\ Loaded
    /\ probe \in {Arguments("finishRouteDrawing", <<meta, zone, types>>) :
                     meta \in DateMetas, zone \in DateZones,
                     types \in TypeSeqs(MaxDateVertices)}

ApplyDates ==
    /\ probe.fn = "finishRouteDrawing"
    /\ ~probe.applied
    /\ probe' = Applied(AddPoints(<<>>, [i \in 1..Len(probe.args[3]) |-> <<i, 0>>],
                                  probe.args[3], 0, 0, 0,
                                  getTripDateRange(probe.args[1], probe.args[2])))
    /\ SessionUnchanged

NextDates == ApplyDates

SpecDates == InitDates /\ [][NextDates]_vars

\* the number of camp and rest vertices before the 0-based vertex i
NightsBefore(types, i) ==
    Cardinality({j \in 1..i : types[j] \in {"camp", "rest"}})

\* the k-th date (k counted from 0) of a trip that runs from meta.start to
\* meta.end, "" for a trip without dates
DateOfTrip(meta, k) ==
    IF meta.start = NoDate \/ meta.end = NoDate \/ meta.start + k > meta.end
    THEN NoDate
    ELSE meta.start + k

\* C33: on finish, the date assigned to the Point feature of vertex i is the
\* k-th date of the trip date range, k being the number of camp and rest
\* vertices that precede vertex i, or the empty string when k is not less
\* than the number of dates; among the dates assigned, a later vertex never
\* has an earlier date.
C33_PointDates ==
    (probe.fn = "finishRouteDrawing" /\ probe.applied) =>
        /\ \A n \in 1..Len(probe.out) :
              probe.out[n].properties.date =
                  DateOfTrip(probe.args[1],
                             NightsBefore(probe.args[3],
                                          probe.out[n].properties.route_vertex_index))
        /\ \A m, n \in 1..Len(probe.out) :
              (/\ m < n
               /\ probe.out[m].properties.date # NoDate
               /\ probe.out[n].properties.date # NoDate)
                  => probe.out[m].properties.date <= probe.out[n].properties.date

----------------------------------------------------------------------------
(* Hotkeys and point-type buttons *)

\* everything of the session but currentPointType, and the trip's features
HotkeyFrame ==
    UNCHANGED <<pendingFeatureType, isDrawingRoute, routeCoords, routeSnapped,
                routeVertexTypes, routeTrailRefs, routeSegments, routeDayhikeSegments,
                mouseMoveHandler, keyHandler, snapPreview, drawingSource, features>>

\* a hotkey 1-4 outside a form input, or a point-type button, while drawing
\* sets currentPointType and nothing else, and a click gives its vertex the
\* type that is current when it is made
HotkeySetsType ==
    /\ (/\ isDrawingRoute
        /\ probe'.fn = "keydown"
        /\ probe'.args[1] \in DOMAIN keyMap
        /\ probe'.args[2] \notin FormTags)
           => currentPointType' = keyMap[probe'.args[1]] /\ HotkeyFrame
    /\ (isDrawingRoute /\ probe'.fn = "button")
           => currentPointType' = probe'.args[1] /\ HotkeyFrame
    /\ (isDrawingRoute /\ probe'.fn = "click" /\ clicks' # clicks)
           => /\ routeVertexTypes' = Append(routeVertexTypes, currentPointType)
              /\ currentPointType' = currentPointType

\* C34 as stated: a hotkey 1-4 (or point-type button) while drawing sets
\* currentPointType to route, camp, dayhike or rest and changes nothing
\* else, only vertices clicked afterwards receive the new type, and a key
\* event whose target is an input, textarea or select changes nothing.
C34_Original ==
    [][/\ HotkeySetsType
       /\ (probe'.fn = "keydown" /\ probe'.args[2] \in FormTags)
              => UNCHANGED currentPointType /\ HotkeyFrame]_vars

\* C34, amended: as stated for the hotkeys and buttons; a key event other
\* than Escape whose target is an input, textarea or select changes nothing,
\* and Escape cancels the session whatever its target.
C34_Amended ==
    [][/\ HotkeySetsType
       /\ (probe'.fn = "keydown" /\ probe'.args[2] \in FormTags
              /\ probe'.args[1] # "Escape")
              => UNCHANGED currentPointType /\ HotkeyFrame
       /\ (probe'.fn = "keydown" /\ probe'.args[1] = "Escape")
              => ~isDrawingRoute' /\ routeCoords' = <<>> /\ pendingFeatureType' = "null"]_vars

\* the hotkey 4 pressed in a select while a route of two vertices placed
\* under two different types is being drawn as dayhike
C34_Witness ==
    /\ isDrawingRoute
    /\ routeVertexTypes = <<"camp", "dayhike">>
    /\ currentPointType = "dayhike"
    /\ probe.fn = "keydown"
    /\ probe.args = <<"4", "SELECT">>

----------------------------------------------------------------------------
(* Listeners and the pending feature type *)

\* C35: after every handler completes, the pointer-move and keydown
\* listeners are registered if and only if the session is drawing, and
\* pendingFeatureType is "route" if and only if the session is drawing,
\* across any sequence of start, restart, finish, cancel and Escape events.
C35_ListenersIffDrawing ==
    /\ mouseMoveHandler <=> isDrawingRoute
    /\ keyHandler <=> isDrawingRoute
    /\ (pendingFeatureType = "route") <=> isDrawingRoute

\* Escape after two clicks of a session: idle again, the listeners removed
C35_Witness ==
    /\ probe.fn = "keydown"
    /\ probe.args[1] = "Escape"
    /\ clicks = 2
    /\ features = <<>>
    /\ ~isDrawingRoute
    /\ ~mouseMoveHandler
    /\ ~keyHandler
    /\ pendingFeatureType = "null"

----------------------------------------------------------------------------
(* trailsMatch applied to a pair of references and to the pair swapped *)

InitSwap ==
    Loaded /\ probe \in {Arguments("trailsMatch, swapped", <<refA, refB>>) :
                             refA \in MatchRefs, refB \in MatchRefs}

ApplySwap ==
    /\ probe.fn = "trailsMatch, swapped" /\ ~probe.applied
    /\ probe' = Applied([there |-> trailsMatch(probe.args[1], probe.args[2]),
                         back |-> trailsMatch(probe.args[2], probe.args[1])])
    /\ SessionUnchanged

NextSwap == ApplySwap

SpecSwap == InitSwap /\ [][NextSwap]_vars

\* C36: trailsMatch is symmetric: for every pair of trail references, null
\* included, trailsMatch(a, b) and trailsMatch(b, a) return the same
\* classification.
C36_MatchSymmetric ==
    (probe.fn = "trailsMatch, swapped" /\ probe.applied) =>
        probe.out.there = probe.out.back

\* two fragments of different length with the same ends and the same name,
\* related in both orders
C36_Witness ==
    /\ probe.fn = "trailsMatch, swapped" /\ probe.applied
    /\ ~probe.args[1].isNull /\ ~probe.args[2].isNull
    /\ Len(probe.args[1].trailCoords) = 3
    /\ Len(probe.args[2].trailCoords) = 4
    /\ probe.args[1].trailCoords[1] = probe.args[2].trailCoords[1]
    /\ Last(probe.args[1].trailCoords) = Last(probe.args[2].trailCoords)
    /\ probe.args[1].trailId = NullId
    /\ probe.out.there = "related"
    /\ probe.out.back = "related"

----------------------------------------------------------------------------
(* planning.js with terra-draw point placement, and the trip store of      *)
(* trip-panel.js: routes are drawn by clicks, camps and waypoints are      *)
(* placed in terra-draw's point mode; names carry the prefix planning_     *)
(* where the main script defines a function of the same name               *)

MaxPlanningClicks == 2      \* route clicks per behaviour of SpecPlanning
MaxPlanningFeatures == 3    \* features in the trip of SpecPlanning

PLANNING_SNAP_PIXEL_RADIUS == 100

\* startWaypointDrop is only called with "scenic"
pendingWaypointSubtype == "scenic"

\* snapToTrail(coord) of planning.js
planning_snapToTrail(coord) ==
    LET pixel == project(coord)
    IN CHOOSE result \in
           {IF Len(trails) = 0 \/ BestTrail(trails, coord) = 0
            THEN [coordinates |-> coord, snapped |-> FALSE]
            ELSE IF SnapPixelDist2(trails[BestTrail(trails, coord)], coord)
                        <= PLANNING_SNAP_PIXEL_RADIUS * PLANNING_SNAP_PIXEL_RADIUS
            THEN [coordinates |->
                      nearestPointOnLine(trails[BestTrail(trails, coord)].coordinates,
                                         coord).coordinates,
                  snapped |-> TRUE]
            ELSE [coordinates |-> coord, snapped |-> FALSE] :
            trails \in {queryRenderedFeatures(
                            pixel.x - PLANNING_SNAP_PIXEL_RADIUS,
                            pixel.y - PLANNING_SNAP_PIXEL_RADIUS,
                            pixel.x + PLANNING_SNAP_PIXEL_RADIUS,
                            pixel.y + PLANNING_SNAP_PIXEL_RADIUS)}} : TRUE

\* route clicks near Ridge and far from every trail; the place of every
\* camp and waypoint
PlanningCoords == {<<55, 3>>, <<300, 300>>}
PointCoords == {<<50, 80>>}

PlanningSnapTable == [c \in PlanningCoords |-> planning_snapToTrail(c)]

\* updateRouteDrawing(previewCoord) of planning.js; preview is <<>> or the
\* preview coordinate
planning_updateRouteDrawing(coords, preview) ==
    LET lineCoords == IF Len(preview) > 0 /\ Len(coords) >= 1 THEN coords \o preview
                      ELSE coords
    IN [main |-> IF Len(lineCoords) >= 2 THEN lineCoords ELSE <<>>, previewSpur |-> <<>>]

\* draw.setMode(mode) where draw is not null
setMode(mode) == IF draw.isNull THEN draw ELSE Draw(mode)

\* what planning.js has no counterpart of
NotOfPlanning ==
    UNCHANGED <<routeVertexTypes, routeTrailRefs, routeSegments, routeDayhikeSegments,
                currentPointType, keyHandler, lastCall>>

planning_startRouteDrawing ==
    /\ draw' = setMode("static")
    /\ isDrawingRoute' = TRUE
    /\ routeCoords' = <<>>
    /\ routeSnapped' = <<>>
    /\ pendingFeatureType' = "route"
    /\ drawingSource' = planning_updateRouteDrawing(<<>>, <<>>)
    /\ snapPreview' = NoPreview
    /\ mouseMoveHandler' = TRUE
    /\ UNCHANGED <<features, clicks>>
    /\ NotOfPlanning

planning_handleMapClickForRoute(coord) ==
    /\ IF ~isDrawingRoute
       THEN UNCHANGED <<routeCoords, routeSnapped, drawingSource, clicks>>
       ELSE \E result \in {PlanningSnapTable[coord]} :
               /\ routeCoords' = Append(routeCoords, result.coordinates)
               /\ routeSnapped' = Append(routeSnapped, result.snapped)
               /\ drawingSource' = planning_updateRouteDrawing(routeCoords', <<>>)
               /\ clicks' = clicks + 1
    /\ UNCHANGED <<isDrawingRoute, pendingFeatureType, snapPreview, mouseMoveHandler,
                   features, draw>>
    /\ NotOfPlanning

planning_handleMouseMoveForRoute(coord) ==
    /\ IF ~(mouseMoveHandler /\ isDrawingRoute)
       THEN UNCHANGED <<snapPreview, drawingSource>>
       ELSE \E result \in {PlanningSnapTable[coord]} :
               /\ snapPreview' = [isNull |-> FALSE, coordinates |-> result.coordinates,
                                  snapped |-> result.snapped]
               /\ drawingSource' = planning_updateRouteDrawing(routeCoords,
                                                               <<result.coordinates>>)
    /\ UNCHANGED <<isDrawingRoute, pendingFeatureType, routeCoords, routeSnapped,
                   mouseMoveHandler, features, draw, clicks>>
    /\ NotOfPlanning

\* resetRouteDrawing of planning.js: the variables it assigns
planning_resetRouteDrawing ==
    /\ isDrawingRoute' = FALSE
    /\ routeCoords' = <<>>
    /\ routeSnapped' = <<>>
    /\ drawingSource' = planning_updateRouteDrawing(<<>>, <<>>)
    /\ snapPreview' = NoPreview
    /\ mouseMoveHandler' = FALSE

\* "if (isDrawingRoute) resetRouteDrawing();"
ResetIfDrawing ==
    IF isDrawingRoute THEN planning_resetRouteDrawing
    ELSE UNCHANGED <<isDrawingRoute, routeCoords, routeSnapped, drawingSource,
                     snapPreview, mouseMoveHandler>>

\* cancelDrawing of planning.js: the variables it assigns
planning_cancelDrawing ==
    /\ ResetIfDrawing
    /\ draw' = setMode("static")
    /\ pendingFeatureType' = "null"

planning_finishRouteDrawing ==
    /\ planning_cancelDrawing
    /\ features' = IF Len(routeCoords) < 2 THEN features
                   ELSE addFeature(features,
                                   [type |-> "LineString", coordinates |-> routeCoords],
                                   [type |-> "route", name |-> "", planned |-> TRUE,
                                    notes |-> ""])
    /\ UNCHANGED clicks
    /\ NotOfPlanning

planning_handleMapDblClickForRoute ==
    IF isDrawingRoute THEN planning_finishRouteDrawing
    ELSE UNCHANGED <<pendingFeatureType, isDrawingRoute, routeCoords, routeSnapped,
                     routeVertexTypes, routeTrailRefs, routeSegments,
                     routeDayhikeSegments, currentPointType, mouseMoveHandler,
                     keyHandler, snapPreview, drawingSource, features, lastCall,
                     clicks, draw>>

\* a drop that leaves the route session as it is
StartDrop_keepRoute(featureType) ==
    IF draw.isNull
    THEN UNCHANGED <<pendingFeatureType, isDrawingRoute, routeCoords, routeSnapped,
                     routeVertexTypes, routeTrailRefs, routeSegments,
                     routeDayhikeSegments, currentPointType, mouseMoveHandler,
                     keyHandler, snapPreview, drawingSource, features, lastCall,
                     clicks, draw>>
    ELSE /\ UNCHANGED <<isDrawingRoute, routeCoords, routeSnapped, drawingSource,
                        snapPreview, mouseMoveHandler>>
         /\ pendingFeatureType' = featureType
         /\ draw' = Draw("point")
         /\ UNCHANGED <<features, clicks>>
         /\ NotOfPlanning

\* startCampDrop() and startWaypointDrop(subtype): featureType is "camp" or
\* "waypoint"
StartDrop(featureType) ==
    IF draw.isNull
    THEN UNCHANGED <<pendingFeatureType, isDrawingRoute, routeCoords, routeSnapped,
                     routeVertexTypes, routeTrailRefs, routeSegments,
                     routeDayhikeSegments, currentPointType, mouseMoveHandler,
                     keyHandler, snapPreview, drawingSource, features, lastCall,
                     clicks, draw>>
    ELSE /\ ResetIfDrawing
         /\ pendingFeatureType' = featureType
         /\ draw' = Draw("point")
         /\ UNCHANGED <<features, clicks>>
         /\ NotOfPlanning

startCampDrop == StartDrop("camp")
startWaypointDrop == StartDrop("waypoint")

IsCamp(f) == f.properties.type = "camp"

\* TripManager.getNextNightNumber() of trip-panel.js
getNextNightNumber(fs) == Cardinality({k \in 1..Len(fs) : IsCamp(fs[k])}) + 1

\* the renumbering loop of TripManager.removeFeature
Renumbered(fs) ==
    [k \in 1..Len(fs) |->
        IF IsCamp(fs[k])
        THEN [fs[k] EXCEPT !.properties.night_number =
                               Cardinality({j \in 1..k : IsCamp(fs[j])})]
        ELSE fs[k]]

\* removeFeature without the renumbering loop
removeFeature_splice(fs, index) ==
    SubSeq(fs, 1, index) \o SubSeq(fs, index + 2, Len(fs))

\* TripManager.removeFeature(index) of trip-panel.js, index counted from 0
removeFeature(fs, index) ==
    Renumbered(SubSeq(fs, 1, index) \o SubSeq(fs, index + 2, Len(fs)))

\* handlePointFinish(id) for the point terra-draw has just placed at coord
handlePointFinish(coord) ==
    IF pendingFeatureType \notin {"camp", "waypoint"}
    THEN UNCHANGED <<pendingFeatureType, isDrawingRoute, routeCoords, routeSnapped,
                     routeVertexTypes, routeTrailRefs, routeSegments,
                     routeDayhikeSegments, currentPointType, mouseMoveHandler,
                     keyHandler, snapPreview, drawingSource, features, lastCall,
                     clicks, draw>>
    ELSE /\ features' = addFeature(features, [type |-> "Point", coordinates |-> coord],
                            IF pendingFeatureType = "camp"
                            THEN [type |-> "camp",
                                  night_number |-> getNextNightNumber(features),
                                  name |-> "", notes |-> "", water_nearby |-> FALSE,
                                  planned |-> TRUE]
                            ELSE [type |-> "waypoint", subtype |-> pendingWaypointSubtype,
                                  name |-> "", notes |-> ""])
         /\ planning_cancelDrawing
         /\ UNCHANGED clicks
         /\ NotOfPlanning

\* the script loaded and initDrawing run, with and without the terra-draw
\* libraries, on a trip just created
InitPlanning ==
    /\ LoadedSession
    /\ features = <<>>
    /\ probe = NoProbe
    /\ draw \in {NoDraw, Draw("static")}

\* the buttons, the map's and terra-draw's events, the delete button of the
\* feature list; probe records the event delivered last
PlanningEvent(fn) == probe' = [fn |-> fn, args |-> <<>>, applied |-> TRUE, out |-> <<>>]

StartPlanning == planning_startRouteDrawing /\ PlanningEvent("startRouteDrawing")
ClickPlanning == \E coord \in PlanningCoords :
                    /\ clicks < MaxPlanningClicks
                    /\ planning_handleMapClickForRoute(coord)
                    /\ PlanningEvent("click")
MouseMovePlanning == \E coord \in PlanningCoords :
                        /\ planning_handleMouseMoveForRoute(coord)
                        /\ PlanningEvent("mousemove")
DblClickPlanning == /\ Len(features) < MaxPlanningFeatures
                    /\ planning_handleMapDblClickForRoute
                    /\ PlanningEvent("dblclick")
CampDrop == startCampDrop /\ PlanningEvent("startCampDrop")
WaypointDrop == startWaypointDrop /\ PlanningEvent("startWaypointDrop")
PointFinish == \E coord \in PointCoords :
                  /\ ~draw.isNull
                  /\ draw.mode = "point"
                  /\ Len(features) < MaxPlanningFeatures
                  /\ handlePointFinish(coord)
                  /\ PlanningEvent("finish")
EscapePlanning == /\ planning_cancelDrawing
                  /\ UNCHANGED <<features, clicks>>
                  /\ NotOfPlanning
                  /\ PlanningEvent("Escape")
RemoveFeature == \E index \in 0..(Len(features) - 1) :
                    /\ features' = removeFeature(features, index)
                    /\ UNCHANGED <<pendingFeatureType, isDrawingRoute, routeCoords,
                                   routeSnapped, routeVertexTypes, routeTrailRefs,
                                   routeSegments, routeDayhikeSegments, currentPointType,
                                   mouseMoveHandler, keyHandler, snapPreview,
                                   drawingSource, lastCall, clicks, draw>>
                    /\ PlanningEvent("removeFeature")

NextPlanning ==
    StartPlanning \/ ClickPlanning \/ MouseMovePlanning \/ DblClickPlanning
        \/ CampDrop \/ WaypointDrop \/ PointFinish \/ EscapePlanning \/ RemoveFeature

SpecPlanning == InitPlanning /\ [][NextPlanning]_vars

----------------------------------------------------------------------------
(* Route drawing and point placement in planning.js *)

\* C37: in planning.js route drawing and terra-draw point placement are
\* mutually exclusive: in no reachable state is isDrawingRoute true while
\* the terra-draw mode is "point", and starting a camp or waypoint drop
\* while a route is being drawn discards the vertices of the route in
\* progress without adding a route feature.
C37_MutuallyExclusive ==
    /\ [](~(isDrawingRoute /\ ~draw.isNull /\ draw.mode = "point"))
    /\ [][(/\ probe'.fn \in {"startCampDrop", "startWaypointDrop"}
           /\ isDrawingRoute
           /\ ~draw.isNull)
             => /\ ~isDrawingRoute'
                /\ draw'.mode = "point"
                /\ routeCoords' = <<>>
                /\ routeSnapped' = <<>>
                /\ ~mouseMoveHandler'
                /\ features' = features]_vars

\* a camp drop started after two route clicks: point mode, no vertex left,
\* no feature in the trip
C37_Witness ==
    /\ probe.fn = "startCampDrop"
    /\ pendingFeatureType = "camp"
    /\ ~draw.isNull
    /\ draw.mode = "point"
    /\ clicks = 2
    /\ ~isDrawingRoute
    /\ routeCoords = <<>>
    /\ features = <<>>

----------------------------------------------------------------------------
(* Night numbers of the camps in the trip store of trip-panel.js *)

\* positions, in the feature list, of the camps
Camps == {k \in 1..Len(features) : IsCamp(features[k])}

\* C38: after any sequence of camp additions, each numbered with
\* getNextNightNumber when it is added, and removeFeature calls, the camps
\* carry night_number 1, 2, ..., k in feature order with no gaps or repeats,
\* and getNextNightNumber returns k + 1.
C38_NightNumbers ==
    /\ \A k \in Camps :
           features[k].properties.night_number = Cardinality({j \in Camps : j <= k})
    /\ \A next \in {getNextNightNumber(features)} :
           /\ \A k \in Camps : features[k].properties.night_number < next
           /\ next > 1 => \E k \in Camps : features[k].properties.night_number = next - 1

\* the first of three features removed: two camps left behind a waypoint or
\* as the only features, numbered 1 and 2
C38_Witness ==
    /\ probe.fn = "removeFeature"
    /\ Len(features) = 2
    /\ Camps = {1, 2}
    /\ features[1].properties.night_number = 1
    /\ features[2].properties.night_number = 2

----------------------------------------------------------------------------
(* migrateTrip applied once and twice to a stored or imported trip *)

MaxMigrateFeatures == 2     \* features of a trip of SpecMigrate

\* a trip that is null; a missing _schema_version; a missing (or empty)
\* point_type
NullTrip == [isNull |-> TRUE]
NoVersion == -1
NoPointType == ""

MigrateFeature(f) ==
    IF f.type = "waypoint" /\ f.point_type = NoPointType
    THEN [f EXCEPT !.point_type = "dayhike"]
    ELSE IF f.type = "camp" /\ f.point_type = NoPointType
    THEN [f EXCEPT !.point_type = "camp"]
    ELSE f

\* migrateTrip assigning point_type whether or not the feature has one
migrateTrip_overwrite(trip) ==
    IF trip.isNull \/ ~trip.hasProperties THEN trip
    ELSE IF trip.schema_version >= 2 THEN trip
    ELSE [trip EXCEPT
             !.features = [k \in DOMAIN @ |->
                              IF @[k].type = "waypoint" THEN [@[k] EXCEPT !.point_type = "dayhike"]
                              ELSE IF @[k].type = "camp" THEN [@[k] EXCEPT !.point_type = "camp"]
                              ELSE @[k]],
             !.schema_version = 2]

\* migrateTrip(trip); schema_version is trip.properties._schema_version
migrateTrip(trip) ==
    IF trip.isNull \/ ~trip.hasProperties THEN trip
    ELSE IF trip.schema_version >= 2 THEN trip
    ELSE [trip EXCEPT !.features = [k \in DOMAIN @ |-> MigrateFeature(@[k])],
                      !.schema_version = 2]

MigrateFeatures ==
    {[type |-> t, point_type |-> p] :
        t \in {"waypoint", "camp", "route", "dayhike"},
        p \in {NoPointType, "camp", "dayhike", "rest"}}

RECURSIVE FeatureSeqs(_)
FeatureSeqs(n) ==
    IF n = 0 THEN {<<>>}
    ELSE FeatureSeqs(n - 1) \cup
         {Append(fs, f) : fs \in FeatureSeqs(n - 1), f \in MigrateFeatures}

MigrateTrips ==
    {NullTrip} \cup
    {[isNull |-> FALSE, hasProperties |-> FALSE, schema_version |-> NoVersion,
      features |-> fs] : fs \in FeatureSeqs(MaxMigrateFeatures)} \cup
    {[isNull |-> FALSE, hasProperties |-> TRUE, schema_version |-> v, features |-> fs] :
        v \in {NoVersion, 1, 2, 3}, fs \in FeatureSeqs(MaxMigrateFeatures)}

InitMigrate ==
    Loaded /\ probe \in {Arguments("migrateTrip", <<trip>>) : trip \in MigrateTrips}

ApplyMigrate ==
    /\ probe.fn = "migrateTrip" /\ ~probe.applied
    /\ probe' = Applied([once |-> migrateTrip(probe.args[1]),
                         twice |-> migrateTrip(migrateTrip(probe.args[1]))])
    /\ SessionUnchanged

NextMigrate == ApplyMigrate

SpecMigrate == InitMigrate /\ [][NextMigrate]_vars

\* the trips migrateTrip does not return at once
IsLegacy(trip) == ~trip.isNull /\ trip.hasProperties /\ trip.schema_version < 2

\* C39: migrateTrip is idempotent and leaves trips with _schema_version >= 2
\* unchanged: applying it twice gives the same trip as applying it once, it
\* never overwrites an existing point_type, and after it has migrated a
\* trip every waypoint that had no point_type has point_type dayhike and
\* every such camp has point_type camp.
C39_MigrateOnce ==
    (probe.fn = "migrateTrip" /\ probe.applied) =>
        \A trip \in {probe.args[1]}, once \in {probe.out.once} :
            /\ probe.out.twice = once
            /\ ~IsLegacy(trip) => once = trip
            /\ IsLegacy(trip) =>
                  /\ once.schema_version = 2
                  /\ DOMAIN once.features = DOMAIN trip.features
                  /\ \A k \in DOMAIN trip.features :
                        LET before == trip.features[k]
                            after == once.features[k]
                        IN /\ after.type = before.type
                           /\ before.point_type # NoPointType =>
                                  after.point_type = before.point_type
                           /\ (before.point_type = NoPointType /\ before.type = "waypoint")
                                  => after.point_type = "dayhike"
                           /\ (before.point_type = NoPointType /\ before.type = "camp")
                                  => after.point_type = "camp"
                           /\ (before.point_type = NoPointType
                                   /\ before.type \notin {"waypoint", "camp"})
                                  => after.point_type = NoPointType

\* a trip of schema version 1: a waypoint without point_type becomes a
\* dayhike, a camp placed as rest stays rest
C39_Witness ==
    /\ probe.fn = "migrateTrip" /\ probe.applied
    /\ IsLegacy(probe.args[1])
    /\ probe.args[1].schema_version = 1
    /\ probe.args[1].features = <<[type |-> "waypoint", point_type |-> NoPointType],
                                  [type |-> "camp", point_type |-> "rest"]>>
    /\ probe.out.once.features = <<[type |-> "waypoint", point_type |-> "dayhike"],
                                   [type |-> "camp", point_type |-> "rest"]>>
    /\ probe.out.twice = probe.out.once

====
